---- MODULE Spec2Model ----
(***************************************************************************)
(* State-machine model of the upload queue of the FileList island          *)
(* (src/src/components/islands/FileList.tsx).                              *)
(*                                                                         *)
(* The component runs on the browser's single-threaded event loop, so each *)
(* event handler and each timer callback is one atomic action.  Preact's   *)
(* useState applies an updater function at the moment setFiles is called,  *)
(* against the latest pending value, so every setFiles(prev => ...) is a   *)
(* synchronous assignment to `files`.                                      *)
(*                                                                         *)
(* Timing is abstracted: interval callbacks (50 ms) and purge timeouts     *)
(* (300 ms) interleave freely, except that the purge timeouts, which all   *)
(* have the same delay, fire in the order in which they were scheduled.    *)
(* A cleared interval never fires again (timers are cancelled             *)
(* synchronously on the event loop).                                       *)
(*                                                                         *)
(* The listeners of files-added, clear-files and remove-file are attached  *)
(* by an effect on [addFiles, removeFile], which runs after the paint of   *)
(* a render in which the simulateUploads prop has changed; until then the  *)
(* listeners of the render before stay attached.  A render that starts     *)
(* while the effect is pending runs it first.                              *)
(***************************************************************************)
EXTENDS Integers, Sequences, FiniteSets, TLC

VARIABLES
    files,           \* useState<FileItem[]>: the queue, in display order
    activeUploads,   \* useRef<Map<string, number>>: uploadId -> interval handle
    intervals,       \* the browser's live interval timers: handle -> closure
    timeouts,        \* the browser's pending purge timeouts, in firing order
    events,          \* CustomEvents dispatched on the container: uploadId -> those
                     \* about it, in order
    emitted,         \* the CustomEvents the last handler dispatched, in order
    nextId,          \* the next value crypto.randomUUID() yields
    nextHandle,      \* the next handle window.setInterval yields
    simulateUploads, \* prop, as of the latest render
    chunkRange,      \* prop
    lastOp,          \* history: the handler or callback that ran last
    cleared,         \* history: ids deleted by clear-files
    accepted,        \* history: id -> the removal request that marked it exiting
    effect,          \* the listener effect: whether the component is mounted and
                     \* the simulateUploads the attached listeners close over
    select,          \* Select.tsx: the dropdown's state, timers and callbacks
    modal,           \* EditFileModal: the dialog's state, timers and callbacks
    report           \* ReportForm: the form's state, timers and emissions

\* the state of the FileList island
fileList == <<files, activeUploads, intervals, timeouts, events, emitted, nextId,
              nextHandle, simulateUploads, chunkRange, lastOp, cleared, accepted,
              effect>>

\* the state of the other islands, which share nothing with FileList
islands == <<select, modal, report>>

vars == <<fileList, islands>>

-----------------------------------------------------------------------------
(* Bounds of the model *)

\* uploadIds generated over a run
MaxFiles == 2
\* purge timeouts pending at once
MaxPending == 2
\* ticks one interval delivers (an interval whose item never entered the queue
\* is stopped only by clear-files or remove-file)
MaxTicks == 3
\* resolution of Math.random(): it yields k / RandomSteps, 0 <= k < RandomSteps
RandomSteps == 4
\* largest bound of a chunkRange prop tried when sampling
MaxChunk == 2

\* timeouts one island (Select, EditFileModal, ReportForm) has pending at once
MaxTimers == 2

\* An uploadId no randomUUID call ever returns
UnknownId == MaxFiles + 1

FileA == [name |-> "a.txt", size |-> 1024, type |-> "text/plain"]

FileB == [name |-> "b.png", size |-> 0, type |-> "image/png"]

\* The detail.files of the files-added events tried
BatchInputs == { <<>>, <<FileA>>, <<FileB, FileA>> }

\* chunkRange props: a proper range, and one the clamps of randomChunkTotal repair
ChunkRangeInputs == { <<1, 2>>, <<0, -1>> }

\* chunkRange props tried when sampling: every pair of integers of -1 .. MaxChunk,
\* among them reversed ranges, zero bounds and negative bounds
ChunkRangeAll == { <<a, b>> : a, b \in (-1) .. MaxChunk }

-----------------------------------------------------------------------------
(* Helpers *)

Max(a, b) == IF a >= b THEN a ELSE b
Min(a, b) == IF a <= b THEN a ELSE b

Range(f) == { f[x] : x \in DOMAIN f }

EmptyMap == [x \in {} |-> 0]

MapSet(m, k, v) == [x \in (DOMAIN m) \cup {k} |-> IF x = k THEN v ELSE m[x]]

MapDelete(m, k) == [x \in (DOMAIN m) \ {k} |-> m[x]]

MapDeleteAll(m, ks) == [x \in (DOMAIN m) \ ks |-> m[x]]

RECURSIVE SelectSeqBy(_, _)
\* Array.prototype.filter with the predicate "uploadId # id"
SelectSeqBy(s, id) ==
    IF s = <<>> THEN <<>>
    ELSE IF Head(s).uploadId # id
         THEN <<Head(s)>> \o SelectSeqBy(Tail(s), id)
         ELSE SelectSeqBy(Tail(s), id)

\* Array.prototype.find: the index of the first item with this uploadId, 0 if none
FindIndex(s, id) ==
    IF \E i \in 1 .. Len(s) : s[i].uploadId = id
    THEN CHOOSE i \in 1 .. Len(s) :
            /\ s[i].uploadId = id
            /\ \A j \in 1 .. (i - 1) : s[j].uploadId # id
    ELSE 0

Ids(s) == { s[i].uploadId : i \in 1 .. Len(s) }

-----------------------------------------------------------------------------
(* randomChunkTotal *)

\* JavaScript's `x || d` on an integer
OrDefault(x, d) == IF x = 0 THEN d ELSE x

\* (mutation: the lower bound is not floored to 1)
ChunkMin_NoFloor(range) == OrDefault(range[1], 1)

\* const min = Math.max(1, chunkRange[0] || 1)
ChunkMin(range) == Max(1, OrDefault(range[1], 1))

\* const max = Math.max(min, chunkRange[1] || min)
ChunkMax(range) == Max(ChunkMin(range), OrDefault(range[2], ChunkMin(range)))

\* Math.floor(Math.random() * (max - min + 1)) + min, for Math.random() = k / RandomSteps
SampleChunkTotal(range, k) ==
    ((k * (ChunkMax(range) - ChunkMin(range) + 1)) \div RandomSteps) + ChunkMin(range)

\* the values randomChunkTotal() can return
randomChunkTotal(range) == { SampleChunkTotal(range, k) : k \in 0 .. (RandomSteps - 1) }

-----------------------------------------------------------------------------
(* FileItem fields *)

\* progress is a rational number of percent, kept as numerator and denominator
ProgressZero == [num |-> 0, den |-> 1]

StatusInitializing == [text |-> "Initializing...", chunk |-> 0, total |-> 0]

StatusComplete == [text |-> "Upload Complete", chunk |-> 0, total |-> 0]

\* (mutation: the status names the chunk after the one just counted)
StatusUploading_Next(currentChunk, totalChunks) ==
    [text |-> "Uploading chunk", chunk |-> Min(currentChunk + 1, totalChunks),
     total |-> totalChunks]

StatusUploading(currentChunk, totalChunks) ==
    [text |-> "Uploading chunk", chunk |-> Min(currentChunk, totalChunks),
     total |-> totalChunks]

NewItem(uploadId, file, totalChunks) ==
    [uploadId |-> uploadId, name |-> file.name, size |-> file.size,
     type |-> file.type, progress |-> ProgressZero,
     status |-> StatusInitializing, isComplete |-> FALSE,
     totalChunks |-> totalChunks, isExiting |-> FALSE]

FileAdded(uploadId, file, totalChunks) ==
    [type |-> "file-added",
     detail |-> [uploadId |-> uploadId, name |-> file.name, size |-> file.size,
                 type |-> file.type, totalChunks |-> totalChunks]]

FileCompleted(uploadId) ==
    [type |-> "file-completed", detail |-> [uploadId |-> uploadId]]

FileRemoved(uploadId, fileName, userInitiated) ==
    [type |-> "file-removed",
     detail |-> [uploadId |-> uploadId, fileName |-> fileName,
                 userInitiated |-> userInitiated]]

RECURSIVE LogAll(_, _)
\* the per-id record of the dispatched events, after dispatching those of out
LogAll(log, out) ==
    IF out = <<>> THEN log
    ELSE LET id == Head(out).detail.uploadId
         IN  LogAll(MapSet(log, id,
                           IF id \in DOMAIN log
                           THEN Append(log[id], Head(out))
                           ELSE <<Head(out)>>),
                    Tail(out))

\* containerRef.current.dispatchEvent, for each event of out in turn
Dispatch(out) ==
    /\ emitted' = out
    /\ events' = LogAll(events, out)

Op(name, uploadId, batch) == [op |-> name, uploadId |-> uploadId, batch |-> batch]

-----------------------------------------------------------------------------
\* FileList is mounted and the listeners of its first render are attached
EffectInit ==
    [mounted |-> TRUE, simulateUploads |-> simulateUploads]

\* the listener effect is pending: the prop has changed since the render
\* whose listeners are attached
EffectPending == effect.mounted /\ effect.simulateUploads # simulateUploads

\* (mutation: the map is emptied without clearing the intervals)
ClearAllIntervals_Skip(live, handles) == live

\* activeUploads.current.forEach(interval => clearInterval(interval))
ClearAllIntervals(live, handles) == MapDeleteAll(live, Range(handles))

\* Every handler and callback of FileList calls setFiles with an array it
\* has just built, so the component renders again before anything else
\* runs.  A render that finds the listener effect pending runs it first:
\* the cleanup of its last run clears every interval registered in the
\* map, as the handler left it.  live are the intervals and handles the map
\* after the handler.
AfterRender(live, handles) ==
    IF EffectPending THEN ClearAllIntervals(live, handles) ELSE live

\* a handler or callback of FileList has returned and the component has
\* rendered: an effect that was pending has attached the listeners of the
\* latest render
Returned ==
    /\ effect' = IF EffectPending
                 THEN [effect EXCEPT !.simulateUploads = simulateUploads]
                 ELSE effect
    /\ UNCHANGED islands

\* Select: useState(false) five times, dragRef.current.dragging false; the
\* document listeners of the first render attached; no timer pending, no
\* callback made
SelectInit ==
    [isOpen |-> FALSE, isClosing |-> FALSE, isOpening |-> FALSE,
     isHovered |-> FALSE, isMobile |-> FALSE, dragging |-> FALSE,
     listener |-> [isOpen |-> FALSE, isClosing |-> FALSE, isOpening |-> FALSE],
     hasOnToggle |-> TRUE, timers |-> <<>>, calls |-> <<>>,
     last |-> "init", option |-> [value |-> "", type |-> "divider", checked |-> FALSE]]

\* EditFileModal before the parent has mounted it: editingFile is null in
\* UploadedFilesList, no instance, no listener, no timeout
ModalInit ==
    [mounted |-> FALSE, isOpen |-> FALSE, isClosing |-> FALSE,
     localLinkServer |-> "http://localhost:4321", localLinkName |-> "my-file",
     linkServer |-> "", linkName |-> "my-file",
     effects |-> [linkServer |-> "", linkName |-> "my-file",
                  isOpen |-> FALSE, isClosing |-> FALSE],
     timers |-> <<>>, orphans |-> <<>>, calls |-> <<>>, last |-> "init"]

\* ReportForm: useState("") for the fields and the error, useState(false)
\* for isSubmitting; a string is the sequence of its characters
ReportInit ==
    [fileUrl |-> <<>>, reason |-> "", details |-> <<>>,
     isSubmitting |-> FALSE, error |-> "", onSubmit |-> "returns",
     timers |-> 0, emitted |-> <<>>, calls |-> <<>>, last |-> "init"]

Init ==
    /\ files = <<>>
    /\ activeUploads = EmptyMap
    /\ intervals = EmptyMap
    /\ timeouts = <<>>
    /\ events = EmptyMap
    /\ emitted = <<>>
    /\ nextId = 1
    /\ nextHandle = 1
    /\ simulateUploads \in BOOLEAN
    /\ chunkRange \in ChunkRangeInputs
    /\ lastOp = Op("init", UnknownId, <<>>)
    /\ cleared = {}
    /\ accepted = EmptyMap
    /\ effect = EffectInit
    /\ select = SelectInit
    /\ modal = ModalInit
    /\ report = ReportInit

-----------------------------------------------------------------------------
(* startSimulation: timers is the pair of the handle map and the browser's *)
(* interval table, threaded through the calls addFiles makes               *)

\* (mutation: the interval is started but its handle is not put in the map)
StartSimulation_NoRegister(timers, uploadId, totalChunks) ==
    IF ~effect.simulateUploads
    THEN timers
    ELSE [activeUploads |-> timers.activeUploads,
          intervals |-> MapSet(timers.intervals, timers.nextHandle,
                               [uploadId |-> uploadId,
                                totalChunks |-> totalChunks,
                                currentChunk |-> 0]),
          nextHandle |-> timers.nextHandle + 1]

\* (mutation: two intervals are started for the file, the second one registered)
StartSimulation_Twice(timers, uploadId, totalChunks) ==
    IF ~effect.simulateUploads
    THEN timers
    ELSE LET closure == [uploadId |-> uploadId, totalChunks |-> totalChunks,
                         currentChunk |-> 0]
             interval == timers.nextHandle + 1
         IN  [activeUploads |-> MapSet(timers.activeUploads, uploadId, interval),
              intervals |-> MapSet(MapSet(timers.intervals, timers.nextHandle,
                                          closure),
                                   interval, closure),
              nextHandle |-> interval + 1]

\* (mutation: the interval is started whatever the simulateUploads prop)
StartSimulation_Always(timers, uploadId, totalChunks) ==
    LET interval == timers.nextHandle
    IN  [activeUploads |-> MapSet(timers.activeUploads, uploadId, interval),
         intervals |-> MapSet(timers.intervals, interval,
                              [uploadId |-> uploadId,
                               totalChunks |-> totalChunks,
                               currentChunk |-> 0]),
         nextHandle |-> interval + 1]

\* (mutation: setInterval hands out the same handle every time)
StartSimulation_SameHandle(timers, uploadId, totalChunks) ==
    IF ~effect.simulateUploads
    THEN timers
    ELSE [activeUploads |-> MapSet(timers.activeUploads, uploadId, 1),
          intervals |-> MapSet(timers.intervals, 1,
                               [uploadId |-> uploadId,
                                totalChunks |-> totalChunks,
                                currentChunk |-> 0]),
          nextHandle |-> timers.nextHandle + 1]

StartSimulation(timers, uploadId, totalChunks) ==
    IF ~effect.simulateUploads
    THEN timers
    ELSE LET interval == timers.nextHandle
         IN  [activeUploads |-> MapSet(timers.activeUploads, uploadId, interval),
              intervals |-> MapSet(timers.intervals, interval,
                                   [uploadId |-> uploadId,
                                    totalChunks |-> totalChunks,
                                    currentChunk |-> 0]),
              nextHandle |-> interval + 1]

\* (mutation: the percentage is computed one chunk ahead and not capped)
Progress_Ahead(currentChunk, totalChunks) ==
    [num |-> 100 * (currentChunk + 1), den |-> totalChunks]

\* (mutation: the percentage counts the chunks still to do)
Progress_Remaining(currentChunk, totalChunks) ==
    [num |-> 100 * (totalChunks - Min(currentChunk, totalChunks)),
     den |-> totalChunks]

\* Math.min(currentChunk / totalChunks, 1) * 100, as a fraction
Progress(currentChunk, totalChunks) ==
    [num |-> 100 * Min(currentChunk, totalChunks), den |-> totalChunks]

\* (mutation: completion is never detected)
IsComplete_Never(currentChunk, totalChunks) == FALSE

\* (mutation: completion is detected one tick late)
IsComplete_Late(currentChunk, totalChunks) == currentChunk > totalChunks

\* progressRatio >= 1
IsComplete(currentChunk, totalChunks) == currentChunk >= totalChunks

\* (mutation: the object is built without the spread of f, losing the metadata)
Advance_NoSpread(f, currentChunk, totalChunks) ==
    [f EXCEPT !.name = "", !.size = 0, !.type = "",
              !.progress = Progress(currentChunk, totalChunks),
              !.status = IF IsComplete(currentChunk, totalChunks)
                         THEN StatusComplete
                         ELSE StatusUploading(currentChunk, totalChunks),
              !.isComplete = IsComplete(currentChunk, totalChunks)]

\* the object the interval callback returns for its own item
Advance(f, currentChunk, totalChunks) ==
    [f EXCEPT !.progress = Progress(currentChunk, totalChunks),
              !.status = IF IsComplete(currentChunk, totalChunks)
                         THEN StatusComplete
                         ELSE StatusUploading(currentChunk, totalChunks),
              !.isComplete = IsComplete(currentChunk, totalChunks)]

\* (mutation: the callback takes its branch for uploadId whatever the queue holds)
Found_Always(prev, uploadId) == TRUE

\* prev.map reaches an item with f.uploadId === uploadId
Found(prev, uploadId) == uploadId \in Ids(prev)

\* (mutation: the callback advances every item of the queue)
AdvanceItems_All(prev, uploadId, currentChunk, totalChunks) ==
    [i \in DOMAIN prev |-> Advance(prev[i], currentChunk, totalChunks)]

\* prev.map(f => f.uploadId !== uploadId ? f : { ...f, progress, status, isComplete })
AdvanceItems(prev, uploadId, currentChunk, totalChunks) ==
    [i \in DOMAIN prev |->
        IF prev[i].uploadId # uploadId
        THEN prev[i]
        ELSE Advance(prev[i], currentChunk, totalChunks)]

\* (mutation: the handle is deleted from the map but the interval is not cleared)
CompleteUpload_OnlyDeregister(timers, h, uploadId) ==
    [activeUploads |-> MapDelete(timers.activeUploads, uploadId),
     intervals |-> timers.intervals]

\* (mutation: a complete upload leaves its interval running and registered)
CompleteUpload_KeepRunning(timers, h, uploadId) == timers

\* clearInterval(interval); activeUploads.current.delete(uploadId)
CompleteUpload(timers, h, uploadId) ==
    [activeUploads |-> MapDelete(timers.activeUploads, uploadId),
     intervals |-> MapDelete(timers.intervals, h)]

\* the handle map and the interval table after the callback of handle h has run
TickTimers(h) ==
    LET uploadId == intervals[h].uploadId
        currentChunk == intervals[h].currentChunk + 1
        counted == [activeUploads |-> activeUploads,
                    intervals |-> [intervals EXCEPT ![h].currentChunk = currentChunk]]
    IN  IF Found(files, uploadId) /\ IsComplete(currentChunk, intervals[h].totalChunks)
        THEN CompleteUpload(counted, h, uploadId)
        ELSE counted

\* the events the callback of handle h dispatches
TickEvents(h) ==
    LET uploadId == intervals[h].uploadId
    IN  IF Found(files, uploadId)
           /\ IsComplete(intervals[h].currentChunk + 1, intervals[h].totalChunks)
           /\ effect.mounted
        THEN <<FileCompleted(uploadId)>>
        ELSE <<>>

\* The interval callback of handle h
Tick(h) ==
    /\ h \in DOMAIN intervals
    /\ intervals[h].currentChunk < MaxTicks
    /\ LET uploadId == intervals[h].uploadId
           totalChunks == intervals[h].totalChunks
           currentChunk == intervals[h].currentChunk + 1
       IN  /\ files' = AdvanceItems(files, uploadId, currentChunk, totalChunks)
           /\ intervals' = AfterRender(TickTimers(h).intervals,
                                       TickTimers(h).activeUploads)
           /\ activeUploads' = TickTimers(h).activeUploads
           /\ Dispatch(TickEvents(h))
           /\ lastOp' = Op("tick", uploadId, <<>>)
    /\ Returned
    /\ UNCHANGED <<timeouts, nextId, nextHandle, simulateUploads, chunkRange,
                   cleared, accepted>>

-----------------------------------------------------------------------------
(* addFiles *)

RECURSIVE AddFilesFrom(_, _, _, _)
\* newFiles.map(...): the i-th file onwards, acc the effects so far
AddFilesFrom(acc, newFiles, totals, i) ==
    IF i > Len(newFiles)
    THEN acc
    ELSE LET uploadId == acc.nextId
             totalChunks == totals[i]
         IN  AddFilesFrom(
                 [timers |-> StartSimulation(acc.timers, uploadId, totalChunks),
                  out |-> Append(acc.out,
                                 FileAdded(uploadId, newFiles[i], totalChunks)),
                  newItems |-> Append(acc.newItems,
                                     NewItem(uploadId, newFiles[i], totalChunks)),
                  nextId |-> uploadId + 1],
                 newFiles, totals, i + 1)

\* (mutation: the new items are put in front of the queue)
AppendItems_Front(prev, newItems) == newItems \o prev

\* setFiles(prev => [...prev, ...newItems])
AppendItems(prev, newItems) == prev \o newItems

AddFiles(newFiles, totals) ==
    LET start == [timers |-> [activeUploads |-> activeUploads,
                              intervals |-> intervals,
                              nextHandle |-> nextHandle],
                  out |-> <<>>, newItems |-> <<>>, nextId |-> nextId]
        end == AddFilesFrom(start, newFiles, totals, 1)
    IN  /\ files' = AppendItems(files, end.newItems)
        /\ activeUploads' = end.timers.activeUploads
        /\ intervals' = AfterRender(end.timers.intervals,
                                   end.timers.activeUploads)
        /\ nextHandle' = end.timers.nextHandle
        /\ Dispatch(end.out)
        /\ nextId' = end.nextId

\* The files-added listener
HandleFilesAdded ==
    \E newFiles \in BatchInputs :
        /\ effect.mounted
        /\ nextId + Len(newFiles) - 1 <= MaxFiles
        /\ \E totals \in [1 .. Len(newFiles) -> randomChunkTotal(chunkRange)] :
               AddFiles(newFiles, totals)
        /\ lastOp' = Op("admit", nextId, newFiles)
        /\ Returned
        /\ UNCHANGED <<timeouts, simulateUploads, chunkRange, cleared, accepted>>

-----------------------------------------------------------------------------
(* removeFile and its deferred purge *)

\* (mutation: the flag is flipped instead of set)
MarkExiting_Toggle(prev, uploadId) ==
    [i \in DOMAIN prev |->
        IF prev[i].uploadId = uploadId
        THEN [prev[i] EXCEPT !.isExiting = ~prev[i].isExiting]
        ELSE prev[i]]

\* (mutation: the exiting item is rebuilt with its progress reset)
MarkExiting_ResetProgress(prev, uploadId) ==
    [i \in DOMAIN prev |->
        IF prev[i].uploadId = uploadId
        THEN [prev[i] EXCEPT !.isExiting = TRUE, !.progress = ProgressZero,
                             !.status = StatusInitializing]
        ELSE prev[i]]

\* (mutation: an item that is complete is not marked)
MarkExiting_OnlyIncomplete(prev, uploadId) ==
    [i \in DOMAIN prev |->
        IF prev[i].uploadId = uploadId /\ ~prev[i].isComplete
        THEN [prev[i] EXCEPT !.isExiting = TRUE]
        ELSE prev[i]]

\* (mutation: the item marked exiting is moved behind the others)
MarkExiting_ToBack(prev, uploadId) ==
    SelectSeqBy(prev, uploadId)
        \o [i \in 1 .. (Len(prev) - Len(SelectSeqBy(prev, uploadId))) |->
               [prev[FindIndex(prev, uploadId)] EXCEPT !.isExiting = TRUE]]

\* files.map(f => f.uploadId === uploadId ? { ...f, isExiting: true } : f)
MarkExiting(prev, uploadId) ==
    [i \in DOMAIN prev |->
        IF prev[i].uploadId = uploadId
        THEN [prev[i] EXCEPT !.isExiting = TRUE]
        ELSE prev[i]]

\* (mutation: removeFile leaves the clock alone)
StopUpload_Skip(timers, uploadId) == timers

\* (mutation: the handle is deleted from the map but the interval is not cleared)
StopUpload_NoClear(timers, uploadId) ==
    [activeUploads |-> MapDelete(timers.activeUploads, uploadId),
     intervals |-> timers.intervals]

\* clearInterval(interval); activeUploads.current.delete(uploadId), when the
\* map holds a handle for uploadId
StopUpload(timers, uploadId) ==
    IF uploadId \in DOMAIN timers.activeUploads
    THEN [activeUploads |-> MapDelete(timers.activeUploads, uploadId),
          intervals |-> MapDelete(timers.intervals, timers.activeUploads[uploadId])]
    ELSE timers

\* (mutation: no timeout is scheduled)
ScheduleTimeout_Drop(pending, uploadId, userInitiated) == pending

\* (mutation: the new timeout fires before those already pending)
ScheduleTimeout_Front(pending, uploadId, userInitiated) ==
    <<[uploadId |-> uploadId, userInitiated |-> userInitiated]>> \o pending

\* setTimeout(..., 300): timeouts of equal delay fire in scheduling order
ScheduleTimeout(pending, uploadId, userInitiated) ==
    Append(pending, [uploadId |-> uploadId, userInitiated |-> userInitiated])

RemoveFile(uploadId, userInitiated) ==
    LET stopped == StopUpload([activeUploads |-> activeUploads,
                               intervals |-> intervals], uploadId)
        i == FindIndex(files, uploadId)
    IN  /\ Len(timeouts) < MaxPending
        /\ activeUploads' = stopped.activeUploads
        /\ intervals' = AfterRender(stopped.intervals, stopped.activeUploads)
        /\ files' = MarkExiting(files, uploadId)
        /\ timeouts' = ScheduleTimeout(timeouts, uploadId, userInitiated)
        /\ accepted' = IF i # 0 /\ ~files[i].isExiting
                       THEN MapSet(accepted, uploadId,
                                   [userInitiated |-> userInitiated,
                                    wasComplete |-> files[i].isComplete])
                       ELSE accepted
        /\ lastOp' = Op("remove", uploadId, <<>>)
        /\ Dispatch(<<>>)
        /\ Returned
        /\ UNCHANGED <<nextId, nextHandle, simulateUploads, chunkRange,
                       cleared>>

\* the uploadIds a remove-file event may name: those generated so far,
\* present or not, and one that addFiles never generated
RemoveInputs == (1 .. (nextId - 1)) \cup {UnknownId}

\* The remove-file listener
HandleRemoveFile ==
    /\ effect.mounted
    /\ \E uploadId \in RemoveInputs :
          RemoveFile(uploadId, TRUE)

\* removeFile called with either value of userInitiated, its second parameter
\* (default false)
RemoveFileWithFlag ==
    /\ effect.mounted
    /\ \E uploadId \in RemoveInputs, userInitiated \in BOOLEAN :
          RemoveFile(uploadId, userInitiated)

\* The delete button of a rendered row
DeleteClick ==
    /\ effect.mounted
    /\ \E i \in 1 .. Len(files) : RemoveFile(files[i].uploadId, TRUE)

\* (mutation: the event is dispatched whether or not the file was found)
PurgeEvents_Always(prev, uploadId, userInitiated) ==
    LET i == FindIndex(prev, uploadId)
    IN  <<FileRemoved(uploadId, IF i # 0 THEN prev[i].name ELSE "", userInitiated)>>

\* (mutation: the flag of the request is dropped for the parameter's default)
PurgeEvents_DefaultFlag(prev, uploadId, userInitiated) ==
    LET i == FindIndex(prev, uploadId)
    IN  IF i # 0
        THEN <<FileRemoved(uploadId, prev[i].name, FALSE)>>
        ELSE <<>>

\* the events the purge callback dispatches: if (file && containerRef.current)
PurgeEvents(prev, uploadId, userInitiated) ==
    LET i == FindIndex(prev, uploadId)
    IN  IF i # 0 /\ effect.mounted
        THEN <<FileRemoved(uploadId, prev[i].name, userInitiated)>>
        ELSE <<>>

\* The callback of the oldest pending purge timeout
PurgeTimeout ==
    /\ timeouts # <<>>
    /\ LET uploadId == Head(timeouts).uploadId
           userInitiated == Head(timeouts).userInitiated
       IN  /\ Dispatch(PurgeEvents(files, uploadId, userInitiated))
           /\ files' = SelectSeqBy(files, uploadId)
           /\ lastOp' = Op("purge", uploadId, <<>>)
    /\ timeouts' = Tail(timeouts)
    /\ intervals' = AfterRender(intervals, activeUploads)
    /\ Returned
    /\ UNCHANGED <<activeUploads, nextId, nextHandle, simulateUploads,
                   chunkRange, cleared, accepted>>

-----------------------------------------------------------------------------
(* The clear-files listener *)

HandleClearFiles ==
    /\ effect.mounted
    /\ intervals' = ClearAllIntervals(intervals, activeUploads)
    /\ activeUploads' = EmptyMap
    /\ files' = <<>>
    /\ cleared' = cleared \cup Ids(files)
    /\ lastOp' = Op("clear", UnknownId, <<>>)
    /\ Dispatch(<<>>)
    /\ Returned
    /\ UNCHANGED <<timeouts, nextId, nextHandle, simulateUploads,
                   chunkRange, accepted>>

-----------------------------------------------------------------------------
Next ==
    \/ HandleFilesAdded
    \/ \E h \in DOMAIN intervals : Tick(h)
    \/ HandleRemoveFile
    \/ DeleteClick
    \/ PurgeTimeout
    \/ HandleClearFiles

Spec == Init /\ [][Next]_vars

\* The timers of the browser keep firing: a live interval calls back again and
\* a pending timeout expires, whatever the user does or does not do
FairSpec ==
    /\ Spec
    /\ WF_vars(\E h \in DOMAIN intervals : Tick(h))
    /\ WF_vars(PurgeTimeout)

\* removeFile's callers passing either flag: the remove-file listener and the
\* delete button pass true, the parameter's default is false
NextFlags ==
    \/ HandleFilesAdded
    \/ \E h \in DOMAIN intervals : Tick(h)
    \/ RemoveFileWithFlag
    \/ PurgeTimeout
    \/ HandleClearFiles

\* every upload of one chunk: the props of Init with chunkRange = [0, -1]
InitFlags == Init /\ chunkRange = <<0, -1>>

SpecFlags == InitFlags /\ [][NextFlags]_vars

\* The component with the simulation on and every upload of MaxChunk chunks
\* (chunkRange = [MaxChunk, MaxChunk]), so that an item passes through every
\* phase on its way to completion
InitTimers ==
    /\ files = <<>>
    /\ activeUploads = EmptyMap
    /\ intervals = EmptyMap
    /\ timeouts = <<>>
    /\ events = EmptyMap
    /\ emitted = <<>>
    /\ nextId = 1
    /\ nextHandle = 1
    /\ simulateUploads = TRUE
    /\ chunkRange = <<MaxChunk, MaxChunk>>
    /\ lastOp = Op("init", UnknownId, <<>>)
    /\ cleared = {}
    /\ accepted = EmptyMap
    /\ effect = EffectInit
    /\ select = SelectInit
    /\ modal = ModalInit
    /\ report = ReportInit

SpecTimers == InitTimers /\ [][Next]_vars

\* the handles window.setInterval can have returned
Handles == 1 .. MaxFiles

\* Every timer of the browser is served: each live interval calls back again,
\* whatever the other intervals do, and a pending timeout expires
FairTimers ==
    /\ SpecTimers
    /\ \A h \in Handles : WF_vars(Tick(h))
    /\ WF_vars(PurgeTimeout)

-----------------------------------------------------------------------------
(* Sampling of totalChunks over the chunkRange props: the component is      *)
(* mounted with any pair of integers and only admits and clears             *)

InitSampling ==
    /\ files = <<>>
    /\ activeUploads = EmptyMap
    /\ intervals = EmptyMap
    /\ timeouts = <<>>
    /\ events = EmptyMap
    /\ emitted = <<>>
    /\ nextId = 1
    /\ nextHandle = 1
    /\ simulateUploads \in BOOLEAN
    /\ chunkRange \in ChunkRangeAll
    /\ lastOp = Op("init", UnknownId, <<>>)
    /\ cleared = {}
    /\ accepted = EmptyMap
    /\ effect = EffectInit
    /\ select = SelectInit
    /\ modal = ModalInit
    /\ report = ReportInit

NextSampling ==
    \/ HandleFilesAdded
    \/ HandleClearFiles

SpecSampling == InitSampling /\ [][NextSampling]_vars

-----------------------------------------------------------------------------
(* A page whose listener of file-completed answers with files-added.       *)
(* dispatchEvent runs the listener synchronously, inside the updater of    *)
(* the completing tick: addFiles starts the clocks of the new files and    *)
(* dispatches file-added, and its setFiles appends the new items to the    *)
(* pending value of the state; the updater of the tick then returns its    *)
(* own result, computed from prev, which replaces that pending value.      *)

TickWithFilesAdded(h) ==
    /\ h \in DOMAIN intervals
    /\ intervals[h].currentChunk < MaxTicks
    /\ TickEvents(h) # <<>>
    /\ LET uploadId == intervals[h].uploadId
           totalChunks == intervals[h].totalChunks
           currentChunk == intervals[h].currentChunk + 1
       IN  \E newFiles \in BatchInputs :
               /\ newFiles # <<>>
               /\ nextId + Len(newFiles) - 1 <= MaxFiles
               /\ \E totals \in [1 .. Len(newFiles) -> randomChunkTotal(chunkRange)] :
                      LET start == [timers |-> [activeUploads |-> TickTimers(h).activeUploads,
                                                intervals |-> TickTimers(h).intervals,
                                                nextHandle |-> nextHandle],
                                    out |-> TickEvents(h), newItems |-> <<>>,
                                    nextId |-> nextId]
                          end == AddFilesFrom(start, newFiles, totals, 1)
                      IN  /\ files' = AdvanceItems(files, uploadId, currentChunk,
                                                   totalChunks)
                          /\ activeUploads' = end.timers.activeUploads
                          /\ intervals' = AfterRender(end.timers.intervals,
                                                     end.timers.activeUploads)
                          /\ nextHandle' = end.timers.nextHandle
                          /\ Dispatch(end.out)
                          /\ nextId' = end.nextId
               /\ lastOp' = Op("tick-admit", uploadId, newFiles)
    /\ Returned
    /\ UNCHANGED <<timeouts, simulateUploads, chunkRange, cleared, accepted>>

(* A page whose listener of file-added answers, during the notification of *)
(* the k-th file of a batch, with clear-files.  addFiles dispatches        *)
(* file-added from inside newFiles.map, after startSimulation and before   *)
(* its setFiles: handleClearFiles clears the intervals registered so far,  *)
(* empties the map and sets the state to []; addFiles then goes on with    *)
(* the rest of the batch and appends all the new items to that state.      *)

HandleFilesAddedWithClear ==
    \E newFiles \in BatchInputs :
        /\ effect.mounted
        /\ newFiles # <<>>
        /\ nextId + Len(newFiles) - 1 <= MaxFiles
        /\ \E k \in 1 .. Len(newFiles) :
           \E totals \in [1 .. Len(newFiles) -> randomChunkTotal(chunkRange)] :
               LET start == [timers |-> [activeUploads |-> activeUploads,
                                         intervals |-> intervals,
                                         nextHandle |-> nextHandle],
                             out |-> <<>>, newItems |-> <<>>, nextId |-> nextId]
                   mid == AddFilesFrom(start, SubSeq(newFiles, 1, k), totals, 1)
                   wiped == [mid EXCEPT
                                !.timers.intervals =
                                    ClearAllIntervals(mid.timers.intervals,
                                                      mid.timers.activeUploads),
                                !.timers.activeUploads = EmptyMap]
                   end == AddFilesFrom(wiped, newFiles, totals, k + 1)
               IN  /\ files' = AppendItems(<<>>, end.newItems)
                   /\ activeUploads' = end.timers.activeUploads
                   /\ intervals' = AfterRender(end.timers.intervals,
                                              end.timers.activeUploads)
                   /\ nextHandle' = end.timers.nextHandle
                   /\ Dispatch(end.out)
                   /\ nextId' = end.nextId
                   /\ lastOp' = Op("admit-clear", nextId + k - 1, newFiles)
        /\ cleared' = cleared \cup Ids(files)
        /\ Returned
        /\ UNCHANGED <<timeouts, simulateUploads, chunkRange, accepted>>

(* The same page answering with remove-file for the uploadId just          *)
(* announced: removeFile stops that file's clock, finds no item to mark    *)
(* and schedules the purge; addFiles then appends the item.                *)

HandleFilesAddedWithRemove ==
    \E newFiles \in BatchInputs :
        /\ effect.mounted
        /\ newFiles # <<>>
        /\ nextId + Len(newFiles) - 1 <= MaxFiles
        /\ Len(timeouts) < MaxPending
        /\ \E k \in 1 .. Len(newFiles) :
           \E totals \in [1 .. Len(newFiles) -> randomChunkTotal(chunkRange)] :
               LET start == [timers |-> [activeUploads |-> activeUploads,
                                         intervals |-> intervals,
                                         nextHandle |-> nextHandle],
                             out |-> <<>>, newItems |-> <<>>, nextId |-> nextId]
                   mid == AddFilesFrom(start, SubSeq(newFiles, 1, k), totals, 1)
                   uploadId == nextId + k - 1
                   stopped == StopUpload([activeUploads |-> mid.timers.activeUploads,
                                          intervals |-> mid.timers.intervals],
                                         uploadId)
                   resumed == [mid EXCEPT
                                  !.timers.intervals = stopped.intervals,
                                  !.timers.activeUploads = stopped.activeUploads]
                   end == AddFilesFrom(resumed, newFiles, totals, k + 1)
               IN  /\ files' = AppendItems(MarkExiting(files, uploadId), end.newItems)
                   /\ timeouts' = ScheduleTimeout(timeouts, uploadId, TRUE)
                   /\ activeUploads' = end.timers.activeUploads
                   /\ intervals' = AfterRender(end.timers.intervals,
                                              end.timers.activeUploads)
                   /\ nextHandle' = end.timers.nextHandle
                   /\ Dispatch(end.out)
                   /\ nextId' = end.nextId
                   /\ lastOp' = Op("admit-remove", uploadId, newFiles)
        /\ Returned
        /\ UNCHANGED <<simulateUploads, chunkRange, cleared, accepted>>

NextListeners ==
    \/ Next
    \/ \E h \in DOMAIN intervals : TickWithFilesAdded(h)
    \/ HandleFilesAddedWithClear
    \/ HandleFilesAddedWithRemove

SpecListeners == Init /\ [][NextListeners]_vars

(* The listener effect.  Its dependencies are addFiles and removeFile;      *)
(* addFiles depends on startSimulation, which depends on the                *)
(* simulateUploads prop.  When the parent renders the component with the    *)
(* other value of the prop the effect is pending until the paint; the       *)
(* listeners and the addFiles of the render before stay attached in the     *)
(* meantime.  The effect first runs the cleanup of its last run (the        *)
(* listeners are removed, every interval registered in the map is cleared,  *)
(* the map is left as it is) and then attaches the listeners of the latest  *)
(* render.  The same cleanup runs when the component is unmounted.          *)

\* the cleanup's activeUploads.current.forEach(interval => clearInterval(interval))
EffectCleanup(timers) ==
    [activeUploads |-> timers.activeUploads,
     intervals |-> ClearAllIntervals(timers.intervals, timers.activeUploads)]

\* the parent renders the component with the other value of simulateUploads;
\* an effect still pending from the render before runs first
RenderSimulateUploads ==
    LET after == IF EffectPending
                 THEN EffectCleanup([activeUploads |-> activeUploads,
                                     intervals |-> intervals])
                 ELSE [activeUploads |-> activeUploads, intervals |-> intervals]
    IN  /\ effect.mounted
        /\ simulateUploads' = ~simulateUploads
        /\ effect' = [effect EXCEPT !.simulateUploads = simulateUploads]
        /\ activeUploads' = after.activeUploads
        /\ intervals' = after.intervals
        /\ lastOp' = Op("render", UnknownId, <<>>)
        /\ Dispatch(<<>>)
        /\ UNCHANGED islands
        /\ UNCHANGED <<files, timeouts, nextId, nextHandle, chunkRange,
                       cleared, accepted>>

\* the pending effect runs after the paint, no handler having run since
\* the render: the cleanup, then the listeners of the latest render
ListenerEffect ==
    LET after == EffectCleanup([activeUploads |-> activeUploads,
                                intervals |-> intervals])
    IN  /\ EffectPending
        /\ effect' = [effect EXCEPT !.simulateUploads = simulateUploads]
        /\ activeUploads' = after.activeUploads
        /\ intervals' = after.intervals
        /\ lastOp' = Op("teardown", UnknownId, <<>>)
        /\ Dispatch(<<>>)
        /\ UNCHANGED islands
        /\ UNCHANGED <<files, timeouts, nextId, nextHandle, simulateUploads,
                       chunkRange, cleared, accepted>>

\* the component is unmounted: the cleanup of the effect's last run, and
\* containerRef.current becomes null; a pending effect never runs
Unmount ==
    LET after == EffectCleanup([activeUploads |-> activeUploads,
                                intervals |-> intervals])
    IN  /\ effect.mounted
        /\ effect' = [effect EXCEPT !.mounted = FALSE]
        /\ activeUploads' = after.activeUploads
        /\ intervals' = after.intervals
        /\ lastOp' = Op("unmount", UnknownId, <<>>)
        /\ Dispatch(<<>>)
        /\ UNCHANGED islands
        /\ UNCHANGED <<files, timeouts, nextId, nextHandle, simulateUploads,
                       chunkRange, cleared, accepted>>

NextTeardown ==
    \/ Next
    \/ RenderSimulateUploads
    \/ ListenerEffect
    \/ Unmount

SpecTeardown == Init /\ [][NextTeardown]_vars

\* the page of SpecListeners, with the renders, the effect and the unmount
NextPage ==
    \/ NextListeners
    \/ RenderSimulateUploads
    \/ ListenerEffect
    \/ Unmount

SpecPage == Init /\ [][NextPage]_vars

-----------------------------------------------------------------------------
(* Select.tsx: the dropdown.  select.timers are its pending timeouts, in    *)
(* scheduling order; select.listener holds the values of isOpen, isClosing  *)
(* and isOpening the attached document listeners close over; select.calls   *)
(* are the props callbacks the last handler invoked; select.last names the  *)
(* last handler or callback and select.option the option of the last        *)
(* gesture, if it was a click on one (history).                             *)
(*                                                                          *)
(* A handler runs in a task of its own and the component is rendered again  *)
(* right after it when it changed a useState value.  The handlers of the    *)
(* elements (trigger, options, overlay, drag handle) are those of the       *)
(* latest render.  The document listeners of lines 132-135 are attached by  *)
(* an effect on [isClosing, isOpen, isOpening], which runs after the paint: *)
(* until then the listeners of the render before are attached, with the     *)
(* values and the closeMenu of that render.  A render that starts while an  *)
(* effect is pending runs the effect first.                                 *)

OptionButton == [value |-> "download", type |-> "button", checked |-> FALSE]
OptionToggleOff == [value |-> "notify", type |-> "toggle", checked |-> FALSE]
OptionToggleOn == [value |-> "pin", type |-> "toggle", checked |-> TRUE]
NoOption == [value |-> "", type |-> "divider", checked |-> FALSE]

\* the options with a click handler (a divider has none)
OptionInputs == {OptionButton, OptionToggleOff, OptionToggleOn}

\* ev.button of a pointerdown: primary, auxiliary, secondary
ButtonInputs == {0, 1, 2}

OnSelect(value) == [fn |-> "onSelect", value |-> value, checked |-> FALSE]
OnToggle(value, checked) == [fn |-> "onToggle", value |-> value, checked |-> checked]

\* a handler starts: nothing called yet
Entered(s, name, option) ==
    [s EXCEPT !.calls = <<>>, !.last = name, !.option = option]

\* the values a function created in the render of s closes over
Closure(s) ==
    [isOpen |-> s.isOpen, isClosing |-> s.isClosing, isOpening |-> s.isOpening]

\* the useState values: a change of one of them renders the component again
Rendered(s) == <<s.isOpen, s.isClosing, s.isOpening, s.isHovered, s.isMobile>>

\* closeMenu of the render whose values are closure
closeMenu(s, closure) ==
    IF closure.isOpening \/ closure.isClosing
    THEN s
    ELSE [s EXCEPT !.isClosing = TRUE, !.isOpening = FALSE,
                   !.timers = Append(@, "close")]

\* handleToggle, the onClick of the trigger
handleToggle(s) ==
    IF s.isOpening \/ s.isClosing
    THEN s
    ELSE IF s.isOpen
         THEN closeMenu(s, Closure(s))
         ELSE [s EXCEPT !.isOpen = TRUE, !.isOpening = TRUE,
                        !.timers = Append(@, "open")]

\* handleSelect
handleSelect(s, option) ==
    IF s.isOpening \/ s.isClosing
    THEN s
    ELSE IF option.type = "toggle" /\ s.hasOnToggle
         THEN [s EXCEPT !.calls = <<OnToggle(option.value, ~option.checked)>>]
         ELSE LET called == [s EXCEPT !.calls = <<OnSelect(option.value)>>]
              IN  IF ~called.isClosing
                  THEN [called EXCEPT !.isClosing = TRUE, !.isOpening = FALSE,
                                      !.timers = Append(@, "close")]
                  ELSE called

\* a click on a rendered option, or Space or Enter on it.  An option of type
\* toggle is a label around a checkbox whose onChange calls handleSelect;
\* the label's onClick calls preventDefault, which cancels the activation of
\* the checkbox, so no change event is fired and nothing is called.  Any
\* other option calls handleSelect from its onClick and onKeyDown.
OptionActivated(s, option) ==
    IF option.type = "toggle" THEN s ELSE handleSelect(s, option)

\* handlePointerDown of the attached listeners, for a target outside the
\* wrapper
handlePointerDown(s) ==
    IF s.listener.isOpen /\ ~s.listener.isOpening /\ ~s.listener.isClosing
    THEN closeMenu(s, s.listener)
    ELSE s

\* handleKeyDown of the attached listeners, for the Escape key
handleKeyDown(s) ==
    IF s.listener.isOpen THEN closeMenu(s, s.listener) ELSE s

\* the callback of the timeout handleToggle schedules (700 ms)
OpenTimeout(s) == [s EXCEPT !.isOpening = FALSE]

\* the callback of the timeout closeMenu and handleSelect schedule (350 ms)
CloseTimeout(s) == [s EXCEPT !.isOpen = FALSE, !.isClosing = FALSE]

\* the menu, with its options and its drag handle, is rendered
MenuRendered(s) == s.isOpen \/ s.isClosing

\* the overlay is rendered
OverlayRendered(s) == s.isMobile /\ (s.isOpen \/ s.isClosing)

\* onDragStart, for a pointerdown with the given button
onDragStart(s, button) ==
    IF ~s.isMobile \/ ~s.isOpen \/ button # 0
    THEN s
    ELSE [s EXCEPT !.dragging = TRUE]

\* onDragEnd as the pointerup listener calls it.  The listener is attached
\* by an effect with no dependencies, so it keeps the onDragEnd of the first
\* render, whose isMobile is the initial false: it only ends the drag and
\* never reaches settleAfterDrag and closeMenu.
onDragEnd(s) ==
    IF ~s.dragging THEN s ELSE [s EXCEPT !.dragging = FALSE]

\* the handler has returned: when it changed a useState value the component
\* is rendered again, and the render first runs the effect still pending
\* from the render before, which attaches that render's listeners
SelectStep(next) ==
    /\ Len(next.timers) <= MaxTimers
    /\ select' = IF Rendered(next) # Rendered(select)
                 THEN [next EXCEPT !.listener = Closure(select)]
                 ELSE next
    /\ UNCHANGED <<fileList, modal, report>>

\* a click on the trigger
SelectToggleClick ==
    SelectStep(handleToggle(Entered(select, "toggle", NoOption)))

\* a click on an option of the rendered menu
SelectOptionClick ==
    /\ MenuRendered(select)
    /\ \E option \in OptionInputs :
          SelectStep(OptionActivated(Entered(select, "select", option), option))

\* pointerdown, mousedown or touchstart outside the wrapper (one press
\* fires two of them, each in its turn)
SelectOutsidePointerDown ==
    SelectStep(handlePointerDown(Entered(select, "outside", NoOption)))

\* keydown of Escape
SelectEscape ==
    SelectStep(handleKeyDown(Entered(select, "escape", NoOption)))

\* pointerdown on the overlay
SelectOverlayPointerDown ==
    /\ OverlayRendered(select)
    /\ SelectStep(closeMenu(Entered(select, "overlay", NoOption), Closure(select)))

\* the media query (max-width: 640px) changes its result
SelectMediaChange ==
    SelectStep([Entered(select, "media", NoOption)
                   EXCEPT !.isMobile = ~select.isMobile])

\* the pointer enters or leaves the trigger
SelectHover ==
    \E over \in BOOLEAN :
        SelectStep([Entered(select, "hover", NoOption) EXCEPT !.isHovered = over])

\* pointerdown on the drag handle of the rendered menu
SelectDragStart ==
    /\ MenuRendered(select)
    /\ \E button \in ButtonInputs :
          SelectStep(onDragStart(Entered(select, "drag-start", NoOption), button))

\* pointerup or pointercancel anywhere in the document
SelectDragEnd ==
    SelectStep(onDragEnd(Entered(select, "drag-end", NoOption)))

\* a pending timeout of the dropdown expires
SelectTimeout ==
    /\ select.timers # <<>>
    /\ LET entered == Entered([select EXCEPT !.timers = Tail(@)],
                              Head(select.timers) \o "-timeout", select.option)
       IN  SelectStep(IF Head(select.timers) = "open"
                      THEN OpenTimeout(entered)
                      ELSE CloseTimeout(entered))

\* the effect of lines 111-143 runs after the paint: the listeners of the
\* render before are removed and those of the latest render attached
SelectEffects ==
    /\ select.listener # Closure(select)
    /\ select' = [select EXCEPT !.listener = Closure(select),
                                !.calls = <<>>, !.last = "effects"]
    /\ UNCHANGED <<fileList, modal, report>>

\* FileList and the other islands stay as constructed
InitSelect ==
    /\ files = <<>>
    /\ activeUploads = EmptyMap
    /\ intervals = EmptyMap
    /\ timeouts = <<>>
    /\ events = EmptyMap
    /\ emitted = <<>>
    /\ nextId = 1
    /\ nextHandle = 1
    /\ simulateUploads = TRUE
    /\ chunkRange = <<1, 2>>
    /\ lastOp = Op("init", UnknownId, <<>>)
    /\ cleared = {}
    /\ accepted = EmptyMap
    /\ effect = EffectInit
    /\ select \in { [SelectInit EXCEPT !.hasOnToggle = b] : b \in BOOLEAN }
    /\ modal = ModalInit
    /\ report = ReportInit

NextSelect ==
    \/ SelectToggleClick
    \/ SelectOptionClick
    \/ SelectOutsidePointerDown
    \/ SelectEscape
    \/ SelectOverlayPointerDown
    \/ SelectMediaChange
    \/ SelectHover
    \/ SelectDragStart
    \/ SelectDragEnd
    \/ SelectTimeout
    \/ SelectEffects

SpecSelect == InitSelect /\ [][NextSelect]_vars

\* each timeout of the dropdown expires
FairSelect == SpecSelect /\ WF_vars(SelectTimeout)

-----------------------------------------------------------------------------
(* EditFileModal, rendered by UploadedFilesList as                         *)
(* {editingFile && <EditFileModal isOpen={true} ... />}: the parent mounts  *)
(* a new instance when handleEdit sets editingFile, renders the same        *)
(* instance with other props when handleEdit is called for another file,    *)
(* and unmounts it when onCancel or handleSaveEdit sets editingFile to      *)
(* null.  modal.mounted says whether an instance exists; modal.isOpen,      *)
(* modal.linkServer and modal.linkName are its props; modal.timers are the  *)
(* pending timeouts of the instance, each with the callback and the data    *)
(* its closure holds; modal.orphans are the timeouts still pending of       *)
(* instances unmounted since, which the component does not clear;           *)
(* modal.effects holds the values of the props and of isClosing in the      *)
(* render whose effects ran last (isOpen false: no effect has run, no       *)
(* listener is attached); modal.calls are the props callbacks the last      *)
(* step invoked and modal.last names that step (history).                   *)
(*                                                                          *)
(* A handler runs in a task of its own and the component is rendered again  *)
(* right after it.  The handlers of the elements are those of the latest    *)
(* render.  The effects run after the paint: the one on [linkServer,        *)
(* linkName, isOpen] sets the local fields from the props, the one on       *)
(* [isOpen, isClosing] attaches handleEscape to the document when isOpen    *)
(* is true; until they run the fields keep their values and the listener    *)
(* of the render before, if any, stays attached.  A render that starts      *)
(* while the effects are pending runs them first.  All timeouts have the    *)
(* same delay, so they expire in the order they were scheduled.             *)

LinkNameInputs == {"my-file", "other"}

LinkServerInputs == {"", "https://cdn.example"}

\* window.location.origin, or its fallback
defaultServer == "http://localhost:4321"

\* linkServer || defaultServer
ServerOrDefault(linkServer) == IF linkServer = "" THEN defaultServer ELSE linkServer

OnCancel == [fn |-> "onCancel", linkServer |-> "", linkName |-> ""]
OnSave(linkServer, linkName) ==
    [fn |-> "onSave", linkServer |-> linkServer, linkName |-> linkName]

EnteredModal(m, name) == [m EXCEPT !.calls = <<>>, !.last = name]

\* the dependencies of the two effects in the render of m
EffectArgs(m) ==
    [linkServer |-> m.linkServer, linkName |-> m.linkName,
     isOpen |-> m.isOpen, isClosing |-> m.isClosing]

\* what a render shows: the props and the useState values
RenderedModal(m) ==
    <<m.isOpen, m.linkServer, m.linkName, m.localLinkServer, m.localLinkName,
      m.isClosing>>

\* EditFileModal's handleCancel, of a render whose isClosing is given
EditFileModal_handleCancel(m, isClosing) ==
    IF isClosing
    THEN m
    ELSE [m EXCEPT !.isClosing = TRUE, !.timers = Append(@, OnCancel)]

\* EditFileModal's handleSave: the timeout's closure holds the fields of the
\* render in which the form was submitted
EditFileModal_handleSave(m) ==
    IF m.isClosing
    THEN m
    ELSE [m EXCEPT !.isClosing = TRUE,
                   !.timers = Append(@, OnSave(m.localLinkServer, m.localLinkName))]

\* handleEscape, for the Escape key: the listener is attached when the
\* render whose effects ran last had isOpen true, and it tests the values
\* and calls the handleCancel of that render
EditFileModal_handleEscape(m) ==
    IF m.effects.isOpen /\ ~m.effects.isClosing
    THEN EditFileModal_handleCancel(m, m.effects.isClosing)
    ELSE m

\* the callback of a timeout of handleCancel or handleSave (200 ms):
\* setIsClosing(false), then onCancel() or onSave(data)
ModalCallback(m, call) == [m EXCEPT !.isClosing = FALSE, !.calls = <<call>>]

\* the instance exists and renders the dialog:
\* if (!isOpen && !isClosing) return null
ModalRendered(m) == m.mounted /\ (m.isOpen \/ m.isClosing)

\* the timeouts pending, oldest first
PendingTimeouts(m) == m.orphans \o m.timers

\* the effects of the render of r, run on the state m: the fields are set
\* from the props of r when linkServer, linkName or isOpen changed, and the
\* Escape listener of r replaces the one attached
RunEffects(m, r) ==
    LET resetDue == \/ r.linkServer # r.effects.linkServer
                    \/ r.linkName # r.effects.linkName
                    \/ r.isOpen # r.effects.isOpen
        reset == IF resetDue
                 THEN [m EXCEPT !.localLinkServer = ServerOrDefault(r.linkServer),
                                !.localLinkName = r.linkName]
                 ELSE m
    IN  [reset EXCEPT !.effects = EffectArgs(r)]

\* the handler has returned: when it changed a prop or a useState value the
\* component is rendered again, and the render first runs the effects still
\* pending from the render before
ModalStep(next) ==
    /\ Len(PendingTimeouts(next)) <= MaxTimers
    /\ modal' = IF RenderedModal(next) # RenderedModal(modal)
                THEN RunEffects(next, modal)
                ELSE next
    /\ UNCHANGED <<fileList, select, report>>

\* first render of a new instance: useState(linkServer || defaultServer),
\* useState(linkName), useState(false); its effects have not run
MountedModal(m, server, name) ==
    [m EXCEPT !.mounted = TRUE, !.isOpen = TRUE, !.isClosing = FALSE,
              !.linkServer = server, !.linkName = name,
              !.localLinkServer = ServerOrDefault(server),
              !.localLinkName = name,
              !.effects = [linkServer |-> server, linkName |-> name,
                           isOpen |-> FALSE, isClosing |-> FALSE],
              !.timers = <<>>]

\* the instance is unmounted: the cleanup of the Escape effect removes the
\* listener, pending effects never run, the state is dropped; the timeouts
\* of the instance stay pending
UnmountedModal(m) ==
    [m EXCEPT !.mounted = FALSE, !.isOpen = FALSE, !.isClosing = FALSE,
              !.linkServer = ModalInit.linkServer,
              !.linkName = ModalInit.linkName,
              !.localLinkServer = ModalInit.localLinkServer,
              !.localLinkName = ModalInit.localLinkName,
              !.effects = ModalInit.effects,
              !.timers = <<>>,
              !.orphans = m.orphans \o m.timers]

\* handleEdit(file) with no dialog shown: setEditingFile(file), and the
\* parent mounts EditFileModal with isOpen true and the file's link
ModalOpen ==
    /\ ~modal.mounted
    /\ \E server \in LinkServerInputs, name \in LinkNameInputs :
          /\ modal' = MountedModal(EnteredModal(modal, "open"), server, name)
          /\ UNCHANGED <<fileList, select, report>>

\* handleEdit(file) for another file, with another link, while the dialog
\* is shown: the instance is rendered with the props of that file
ModalEdit ==
    /\ modal.mounted
    /\ \E server \in LinkServerInputs, name \in LinkNameInputs :
          /\ <<server, name>> # <<modal.linkServer, modal.linkName>>
          /\ ModalStep([EnteredModal(modal, "edit")
                           EXCEPT !.linkServer = server, !.linkName = name])

\* input in the Link Server or the Link Name field
ModalInput ==
    /\ ModalRendered(modal)
    /\ \/ \E server \in LinkServerInputs :
             ModalStep([EnteredModal(modal, "input")
                           EXCEPT !.localLinkServer = server])
       \/ \E name \in LinkNameInputs :
             ModalStep([EnteredModal(modal, "input")
                           EXCEPT !.localLinkName = name])

\* a click on the close button, on Cancel, or on the overlay itself
ModalCancelClick ==
    /\ ModalRendered(modal)
    /\ \E gesture \in {"cancel", "overlay"} :
          ModalStep(EditFileModal_handleCancel(EnteredModal(modal, gesture),
                                               modal.isClosing))

\* submit of the form; both fields are required, so the browser submits
\* only when they are filled in
ModalSaveSubmit ==
    /\ ModalRendered(modal)
    /\ modal.localLinkServer # "" /\ modal.localLinkName # ""
    /\ ModalStep(EditFileModal_handleSave(EnteredModal(modal, "save")))

\* keydown of Escape in the document
ModalEscape ==
    ModalStep(EditFileModal_handleEscape(EnteredModal(modal, "escape")))

\* the oldest pending timeout expires.  Its callback calls setIsClosing(false)
\* on the instance that scheduled it and then onCancel() or onSave(data);
\* the parent answers either with setEditingFile(null) (onCancel, and
\* handleSaveEdit, whose closure holds the file edited), which unmounts the
\* instance shown, if any.  The callback of an instance already unmounted
\* is named "orphan".
ModalTimeout ==
    /\ PendingTimeouts(modal) # <<>>
    /\ LET call == Head(PendingTimeouts(modal))
           left == IF modal.orphans # <<>>
                   THEN EnteredModal([modal EXCEPT !.orphans = Tail(@)], "orphan")
                   ELSE EnteredModal([modal EXCEPT !.timers = Tail(@)], "timeout")
       IN  modal' = UnmountedModal(ModalCallback(left, call))
    /\ UNCHANGED <<fileList, select, report>>

\* the effects of lines 315-318 and 328-344 run after the paint
ModalEffects ==
    /\ modal.mounted
    /\ modal.effects # EffectArgs(modal)
    /\ modal' = RunEffects(EnteredModal(modal, "effects"), modal)
    /\ UNCHANGED <<fileList, select, report>>

\* FileList and the other islands stay as constructed
InitModal ==
    /\ files = <<>>
    /\ activeUploads = EmptyMap
    /\ intervals = EmptyMap
    /\ timeouts = <<>>
    /\ events = EmptyMap
    /\ emitted = <<>>
    /\ nextId = 1
    /\ nextHandle = 1
    /\ simulateUploads = TRUE
    /\ chunkRange = <<1, 2>>
    /\ lastOp = Op("init", UnknownId, <<>>)
    /\ cleared = {}
    /\ accepted = EmptyMap
    /\ effect = EffectInit
    /\ select = SelectInit
    /\ modal = ModalInit
    /\ report = ReportInit

NextModal ==
    \/ ModalOpen
    \/ ModalEdit
    \/ ModalInput
    \/ ModalCancelClick
    \/ ModalSaveSubmit
    \/ ModalEscape
    \/ ModalTimeout
    \/ ModalEffects

SpecModal == InitModal /\ [][NextModal]_vars

-----------------------------------------------------------------------------
(* ReportForm (RetentionToolbar.tsx).  Strings the form computes on are     *)
(* sequences of one-character strings.  report.timers counts the pending    *)
(* reset timeouts; report.emitted and report.calls are the events the last  *)
(* step dispatched on the form and the onSubmit calls it made (history).    *)

UrlEmpty == <<>>
UrlBlank == <<" ", " ">>
UrlNoScheme == <<"a", "/", "b">>
UrlFtp == <<"f", "t", "p", ":", "/", "/", "a">>
UrlHttp == <<"h", "t", "t", "p", ":", "/", "/", "a">>
UrlHttps == <<"h", "t", "t", "p", "s", ":", "/", "/", "a", "/", "b">>
UrlHttpsPadded == <<" ", "h", "t", "t", "p", "s", ":", "/", "/", "a", " ">>
UrlHttpNoSlashes == <<"h", "t", "t", "p", ":", "a">>
UrlHttpNoHost == <<"h", "t", "t", "p", ":", "/", "/">>
UrlMailto == <<"m", "a", "i", "l", "t", "o", ":", "a">>

UrlInputs ==
    { UrlEmpty, UrlBlank, UrlNoScheme, UrlFtp, UrlHttp, UrlHttps,
      UrlHttpsPadded, UrlHttpNoSlashes, UrlHttpNoHost, UrlMailto }

\* the values of the reason options that can be chosen (the option with the
\* empty value is disabled)
ReasonInputs == {"malware", "spam"}

DetailsInputs == { <<>>, <<" ", "x", " ">> }

\* the callback prop: absent, returning, or throwing
OnSubmitInputs == {"none", "returns", "throws"}

RECURSIVE TrimStart(_)
TrimStart(str) ==
    IF str # <<>> /\ Head(str) = " " THEN TrimStart(Tail(str)) ELSE str

RECURSIVE TrimEnd(_)
TrimEnd(str) ==
    IF str # <<>> /\ str[Len(str)] = " "
    THEN TrimEnd(SubSeq(str, 1, Len(str) - 1))
    ELSE str

\* String.prototype.trim
Trim(str) == TrimEnd(TrimStart(str))

\* the index of the first c in str, or 0
IndexOf(str, c) ==
    IF \E i \in 1 .. Len(str) : str[i] = c
    THEN CHOOSE i \in 1 .. Len(str) :
             str[i] = c /\ \A j \in 1 .. (i - 1) : str[j] # c
    ELSE 0

Letters == {"a", "b", "f", "h", "i", "l", "m", "o", "p", "s", "t", "x"}

SpecialSchemes == { <<"h", "t", "t", "p">>, <<"h", "t", "t", "p", "s">>, <<"f", "t", "p">> }

RECURSIVE SkipSlashes(_)
SkipSlashes(str) ==
    IF str # <<>> /\ Head(str) = "/" THEN SkipSlashes(Tail(str)) ELSE str

\* the host of a special URL: what follows the slashes, up to the next "/"
HostOf(rest) ==
    LET after == SkipSlashes(rest)
        slash == IndexOf(after, "/")
    IN  IF slash = 0 THEN after ELSE SubSeq(after, 1, slash - 1)

\* new URL(url).protocol without its colon, or <<>> when the constructor
\* throws: leading and trailing spaces are stripped; with no base, the input
\* needs a scheme of letters before its first colon; a special scheme needs
\* a host of valid characters, with or without the two slashes
URLScheme(url) ==
    LET input == Trim(url)
        colon == IndexOf(input, ":")
        scheme == SubSeq(input, 1, colon - 1)
        rest == SubSeq(input, colon + 1, Len(input))
    IN  IF colon <= 1 THEN <<>>
        ELSE IF \E i \in 1 .. Len(scheme) : scheme[i] \notin Letters THEN <<>>
        ELSE IF scheme \in SpecialSchemes
             THEN IF HostOf(rest) = <<>>
                     \/ \E i \in 1 .. Len(HostOf(rest)) : HostOf(rest)[i] \notin Letters
                  THEN <<>>
                  ELSE scheme
             ELSE scheme

\* (mutation: any URL the constructor accepts is valid)
validateUrl_AnyScheme(url) == URLScheme(url) # <<>>

\* validateUrl
validateUrl(url) == URLScheme(url) \in { <<"h", "t", "t", "p">>, <<"h", "t", "t", "p", "s">> }

ReportSubmitEvent(r) ==
    [type |-> "report-submit",
     detail |-> [fileUrl |-> Trim(r.fileUrl), reason |-> r.reason,
                 details |-> Trim(r.details)]]

EnteredReport(r, name) == [r EXCEPT !.emitted = <<>>, !.calls = <<>>, !.last = name]

\* ReportForm's handleSubmit
ReportForm_handleSubmit(r) ==
    IF Trim(r.fileUrl) = <<>>
    THEN [r EXCEPT !.error = "Please enter a file URL"]
    ELSE IF ~validateUrl(r.fileUrl)
    THEN [r EXCEPT !.error = "Please enter a valid URL"]
    ELSE IF r.reason = ""
    THEN [r EXCEPT !.error = "Please select a reason for reporting"]
    ELSE LET sent == [r EXCEPT !.error = "", !.isSubmitting = TRUE,
                               !.emitted = <<ReportSubmitEvent(r)>>]
         IN  IF r.onSubmit = "none"
             THEN [sent EXCEPT !.timers = @ + 1]
             ELSE IF r.onSubmit = "returns"
             THEN [sent EXCEPT !.calls = <<ReportSubmitEvent(r).detail>>,
                               !.timers = @ + 1]
             ELSE [sent EXCEPT
                      !.calls = <<ReportSubmitEvent(r).detail>>,
                      !.error = "Failed to submit report. Please try again.",
                      !.isSubmitting = FALSE]

\* the callback of the reset timeout (500 ms)
ReportReset(r) ==
    [r EXCEPT !.fileUrl = <<>>, !.reason = "", !.details = <<>>,
              !.isSubmitting = FALSE]

ReportStep(next) ==
    /\ next.timers <= MaxTimers
    /\ report' = next
    /\ UNCHANGED <<fileList, select, modal>>

\* input in a field; the fields are disabled while isSubmitting
ReportInput ==
    /\ ~report.isSubmitting
    /\ \/ \E url \in UrlInputs :
             ReportStep([EnteredReport(report, "input") EXCEPT !.fileUrl = url])
       \/ \E reason \in ReasonInputs :
             ReportStep([EnteredReport(report, "input") EXCEPT !.reason = reason])
       \/ \E details \in DetailsInputs :
             ReportStep([EnteredReport(report, "input") EXCEPT !.details = details])

\* the form's constraint validation: the file URL input and the reason
\* select are required, the details are not
ReportFormValid(r) == r.fileUrl # <<>> /\ r.reason # ""

\* submit of the form (a click on the submit button, Enter in the URL
\* field); the button is disabled while isSubmitting, and the browser fires
\* no submit event while a required field is empty
ReportSubmit ==
    /\ ~report.isSubmitting
    /\ ReportFormValid(report)
    /\ ReportStep(ReportForm_handleSubmit(
                      [EnteredReport(report, "submit") EXCEPT !.error = ""]))

\* a pending reset timeout expires
ReportTimeout ==
    /\ report.timers > 0
    /\ ReportStep(ReportReset([EnteredReport(report, "reset")
                                  EXCEPT !.timers = @ - 1]))

\* FileList and the other islands stay as constructed
InitReport ==
    /\ files = <<>>
    /\ activeUploads = EmptyMap
    /\ intervals = EmptyMap
    /\ timeouts = <<>>
    /\ events = EmptyMap
    /\ emitted = <<>>
    /\ nextId = 1
    /\ nextHandle = 1
    /\ simulateUploads = TRUE
    /\ chunkRange = <<1, 2>>
    /\ lastOp = Op("init", UnknownId, <<>>)
    /\ cleared = {}
    /\ accepted = EmptyMap
    /\ effect = EffectInit
    /\ select = SelectInit
    /\ modal = ModalInit
    /\ report \in { [ReportInit EXCEPT !.onSubmit = f] : f \in OnSubmitInputs }

NextReport ==
    \/ ReportInput
    \/ ReportSubmit
    \/ ReportTimeout

SpecReport == InitReport /\ [][NextReport]_vars

-----------------------------------------------------------------------------
(* Vocabulary of the properties *)

\* The phase of the specification's QueueItem, read off the FileItem
Phase(f) ==
    IF f.isExiting THEN "Exiting"
    ELSE IF f.isComplete THEN "Complete"
    ELSE IF f.status.text = "Uploading chunk" THEN "Transferring"
    ELSE "Initializing"

\* completedChunks, read off the status and the completion flag
ChunksDone(f) ==
    IF f.isComplete THEN f.totalChunks
    ELSE IF f.status.text = "Uploading chunk" THEN f.status.chunk
    ELSE 0

Item(id) == files[FindIndex(files, id)]

EventsIn(log, id) == IF id \in DOMAIN log THEN log[id] ELSE <<>>

IsRemovedEvent(e) == e.type = "file-removed"

IsCompletedEvent(e) == e.type = "file-completed"

RemovedIn(log, id) == SelectSeq(EventsIn(log, id), IsRemovedEvent)

CompletedIn(log, id) == SelectSeq(EventsIn(log, id), IsCompletedEvent)

EventsOf(id) == EventsIn(events, id)

RemovedEvents(id) == RemovedIn(events, id)

CompletedEvents(id) == CompletedIn(events, id)

AllIds == 1 .. MaxFiles

GeneratedIds == 1 .. (nextId - 1)

\* the live interval timers whose callback updates uploadId
ClocksOf(id) == { h \in DOMAIN intervals : intervals[h].uploadId = id }

PendingFor(id) == { j \in 1 .. Len(timeouts) : timeouts[j].uploadId = id }

-----------------------------------------------------------------------------
(* C1: a files-added event with n files (n >= 0), in any state of the      *)
(* queue, appends exactly n new items after the existing ones, in the      *)
(* order of the batch, each with zero progress in phase Initializing, and  *)
(* dispatches exactly n file-added events, one per new item in the same    *)
(* order, each with that item's id, name, size, type and totalChunks.      *)
C1_AdmitAppendsInOrder ==
    [][lastOp'.op = "admit" =>
          LET batch == lastOp'.batch
              n == Len(batch)
          IN  /\ nextId' = nextId + n
              /\ Len(files') = Len(files) + n
              /\ SubSeq(files', 1, Len(files)) = files
              /\ Len(emitted') = n
              /\ \A i \in 1 .. n :
                    LET item == files'[Len(files) + i]
                        ev == emitted'[i]
                    IN  /\ item.uploadId = nextId + i - 1
                        /\ item.uploadId \notin Ids(files)
                        /\ item.name = batch[i].name
                        /\ item.size = batch[i].size
                        /\ item.type = batch[i].type
                        /\ item.progress.num = 0
                        /\ ~item.isComplete
                        /\ Phase(item) = "Initializing"
                        /\ item.totalChunks \in randomChunkTotal(chunkRange)
                        /\ ev.type = "file-added"
                        /\ ev.detail = [uploadId |-> item.uploadId,
                                        name |-> item.name,
                                        size |-> item.size,
                                        type |-> item.type,
                                        totalChunks |-> item.totalChunks]
                        /\ events'[item.uploadId] = <<ev>>]_vars

\* a batch of two different files was admitted
C1_Witness ==
    /\ lastOp.op = "admit"
    /\ Len(lastOp.batch) = 2
    /\ Len(emitted) = 2
    /\ Len(files) = 2
    /\ files[1].name # files[2].name

(* C2: once a removal request for an id has been accepted, no step changes *)
(* the progress, status or completion flag of its item while the item is   *)
(* still in the queue, and once the item is gone no step brings it back.   *)
C2_NoTickAfterRemoval ==
    [][\A id \in DOMAIN accepted :
          /\ id \in Ids(files) /\ id \in Ids(files') =>
                LET before == Item(id)
                    after == files'[FindIndex(files', id)]
                IN  /\ before.isExiting /\ after.isExiting
                    /\ after.progress = before.progress
                    /\ after.status = before.status
                    /\ after.isComplete = before.isComplete
                    /\ ClocksOf(id) = {}
          /\ id \notin Ids(files) => id \notin Ids(files')]_vars

\* an item removed in mid-transfer stays as it was while another item's clock ticks
C2_Witness ==
    /\ lastOp.op = "tick"
    /\ \E id \in DOMAIN accepted :
          /\ id # lastOp.uploadId
          /\ id \in Ids(files)
          /\ Phase(Item(id)) = "Exiting"
          /\ ChunksDone(Item(id)) = 1
          /\ Item(id).totalChunks = 2

(* C3: clear-files leaves no item and dispatches nothing; no file-removed  *)
(* event is ever dispatched for an item that clear-files deleted, and the  *)
(* purge still pending for such an item deletes nothing when it fires.     *)
C3_ClearIsSilent ==
    [][/\ lastOp'.op = "clear" => files' = <<>> /\ emitted' = <<>> /\ events' = events
       /\ \A id \in AllIds :
             id \in cleared' => id \notin Ids(files') /\ RemovedIn(events', id) = <<>>
       /\ lastOp'.op = "purge" /\ lastOp'.uploadId \in cleared =>
             files' = files /\ emitted' = <<>> /\ events' = events]_vars

\* the purge of an item that was exiting when clear-files ran has fired
C3_Witness ==
    /\ lastOp.op = "purge"
    /\ lastOp.uploadId \in cleared
    /\ lastOp.uploadId \in DOMAIN accepted
    /\ files # <<>>

(* C4: right after clear-files the handle map is empty and no interval is  *)
(* live, and no item that clear-files deleted has a clock or dispatches    *)
(* file-completed afterwards.                                              *)
C4_ClearStopsClocks ==
    /\ lastOp.op = "clear" => activeUploads = EmptyMap /\ intervals = EmptyMap
    /\ \A id \in cleared :
          /\ id \notin DOMAIN activeUploads
          /\ ClocksOf(id) = {}
          /\ \A i \in 1 .. Len(emitted) :
                ~(IsCompletedEvent(emitted[i]) /\ emitted[i].detail.uploadId = id)

\* clear-files ran while an item was in mid-transfer
C4_Witness ==
    /\ simulateUploads
    /\ lastOp.op = "clear"
    /\ \E id \in cleared :
          /\ id \notin DOMAIN accepted
          /\ CompletedEvents(id) = <<>>

(* C5: with simulateUploads on, a tick of the clock of an item that is in  *)
(* the queue raises its completed chunks by one; it dispatches             *)
(* file-completed exactly when that count reaches totalChunks = k, that    *)
(* is on the k-th tick and on no earlier one, the item then being complete *)
(* at 100 percent with k chunks done; and file-completed is dispatched at  *)
(* most once per id.                                                       *)
C5_CompletesOnKthTick ==
    [][/\ lastOp'.op = "tick" /\ lastOp'.uploadId \in Ids(files) =>
             LET id == lastOp'.uploadId
                 before == Item(id)
                 after == files'[FindIndex(files', id)]
                 k == before.totalChunks
                 h == activeUploads[id]
             IN  /\ simulateUploads
                 /\ intervals[h].currentChunk = ChunksDone(before)
                 /\ ChunksDone(after) = ChunksDone(before) + 1
                 /\ ChunksDone(after) < k =>
                       /\ emitted' = <<>>
                       /\ ~after.isComplete
                       /\ CompletedIn(events', id) = <<>>
                 /\ ChunksDone(after) = k =>
                       /\ emitted' = <<[type |-> "file-completed",
                                        detail |-> [uploadId |-> id]]>>
                       /\ after.isComplete
                       /\ after.progress.num = 100 * after.progress.den
                 /\ ChunksDone(after) <= k
       /\ \A id \in AllIds : Len(CompletedIn(events', id)) <= 1]_vars

\* the second tick of an item of two chunks has completed it
C5_Witness ==
    /\ lastOp.op = "tick"
    /\ emitted = <<[type |-> "file-completed", detail |-> [uploadId |-> lastOp.uploadId]]>>
    /\ lastOp.uploadId \in Ids(files)
    /\ Item(lastOp.uploadId).totalChunks = 2
    /\ Item(lastOp.uploadId).isComplete

(* C6: an item whose removal was requested (and accepted) before it had    *)
(* completed never has a file-completed event.                             *)
C6_NoCompletionAfterRemoval ==
    \A id \in DOMAIN accepted :
        ~accepted[id].wasComplete =>
            /\ CompletedEvents(id) = <<>>
            /\ id \in Ids(files) => ~Item(id).isComplete

\* an item removed before its first tick was purged after the grace period
C6_Witness ==
    /\ simulateUploads
    /\ lastOp.op = "purge"
    /\ lastOp.uploadId \in DOMAIN accepted
    /\ ~accepted[lastOp.uploadId].wasComplete
    /\ Len(RemovedEvents(lastOp.uploadId)) = 1
    /\ intervals # EmptyMap

(* C7: an accepted removal request (the item was in the queue and not      *)
(* exiting) leaves the item exiting with its purge pending, and, unless    *)
(* clear-files deletes the item first, the purge deletes the item and      *)
(* dispatches exactly one file-removed event with the id, the item's name  *)
(* and the userInitiated flag of the request, which is true for every      *)
(* request the component makes; no other file-removed event exists.        *)
C7_PurgeReportsRequest ==
    /\ \A id \in DOMAIN accepted :
          /\ accepted[id].userInitiated = TRUE
          /\ Len(RemovedEvents(id)) <= 1
          /\ \A j \in 1 .. Len(RemovedEvents(id)) :
                RemovedEvents(id)[j].detail =
                    [uploadId |-> id,
                     fileName |-> EventsOf(id)[1].detail.name,
                     userInitiated |-> accepted[id].userInitiated]
          /\ id \notin cleared =>
                \/ /\ id \in Ids(files)
                   /\ Item(id).isExiting
                   /\ PendingFor(id) # {}
                   /\ RemovedEvents(id) = <<>>
                \/ /\ id \notin Ids(files)
                   /\ Len(RemovedEvents(id)) = 1
          /\ id \in cleared => RemovedEvents(id) = <<>>
    /\ \A id \in AllIds \ DOMAIN accepted : RemovedEvents(id) = <<>>
    /\ lastOp.op = "purge" =>
          /\ lastOp.uploadId \notin Ids(files)
          /\ emitted # <<>> => emitted = RemovedEvents(lastOp.uploadId)

\* the purge of a removed item has dispatched its file-removed event
C7_Witness ==
    /\ lastOp.op = "purge"
    /\ Len(emitted) = 1
    /\ emitted[1].type = "file-removed"
    /\ emitted[1].detail.userInitiated
    /\ lastOp.uploadId \notin Ids(files)
    /\ files # <<>>

(* C8 as stated: in every state each item in phase Initializing or         *)
(* Transferring has exactly one live clock, registered under its id, and   *)
(* each item in phase Complete or Exiting, and each id no longer in the    *)
(* queue, has none.                                                        *)
HasOneClock(id) ==
    /\ id \in DOMAIN activeUploads
    /\ ClocksOf(id) = {activeUploads[id]}

HasNoClock(id) ==
    /\ id \notin DOMAIN activeUploads
    /\ ClocksOf(id) = {}

C8_ClockPerActiveItem ==
    /\ \A i \in 1 .. Len(files) :
          IF Phase(files[i]) \in {"Initializing", "Transferring"}
          THEN HasOneClock(files[i].uploadId)
          ELSE HasNoClock(files[i].uploadId)
    /\ \A id \in AllIds \ Ids(files) : HasNoClock(id)

(* C8 amended: with simulateUploads on, the statement above holds; with    *)
(* simulateUploads off no item has a clock, whatever its phase.            *)
C8_ClockPerActiveItemWhenSimulating ==
    /\ simulateUploads => C8_ClockPerActiveItem
    /\ ~simulateUploads => activeUploads = EmptyMap /\ intervals = EmptyMap

\* one item is in mid-transfer with its clock while another has completed
C8_Witness ==
    /\ simulateUploads
    /\ \E i, j \in 1 .. Len(files) :
          /\ Phase(files[i]) = "Transferring"
          /\ HasOneClock(files[i].uploadId)
          /\ Phase(files[j]) = "Complete"
          /\ HasNoClock(files[j].uploadId)

(* C9: no clock outlives its item: every registered handle and every live  *)
(* interval belongs to an item that is in the queue, and every registered  *)
(* handle is that of a live interval of the same id.                       *)
C9_NoClockOutlivesItem ==
    /\ \A id \in DOMAIN activeUploads :
          /\ id \in Ids(files)
          /\ activeUploads[id] \in ClocksOf(id)
    /\ \A h \in DOMAIN intervals : intervals[h].uploadId \in Ids(files)

\* a purged item's clock is gone while another item's clock still runs
C9_Witness ==
    /\ simulateUploads
    /\ lastOp.op = "purge"
    /\ lastOp.uploadId \in DOMAIN accepted
    /\ ~accepted[lastOp.uploadId].wasComplete
    /\ lastOp.uploadId \notin Ids(files)
    /\ intervals # EmptyMap

\* a removal request for an id that is not in the queue or whose item is exiting
InertRequest(id) == id \notin Ids(files) \/ Item(id).isExiting

(* C10 as stated: a removal request for an id that is not in the queue, or *)
(* whose item is already exiting, changes no item and no clock, schedules  *)
(* no further purge and dispatches nothing.                                *)
C10_InertRequestIsNoOp ==
    [][lastOp'.op = "remove" /\ InertRequest(lastOp'.uploadId) =>
          /\ UNCHANGED <<files, activeUploads, intervals, events, accepted>>
          /\ emitted' = <<>>
          /\ timeouts' = timeouts]_vars

(* C10, what the code does instead: such a request changes no item and no  *)
(* clock and dispatches nothing, but it does schedule one more purge       *)
(* timeout, behind those already pending, which are left as they are; a    *)
(* purge that fires for an id not in the queue deletes nothing and         *)
(* dispatches nothing, so each id has at most one file-removed event, with *)
(* the flag of the request that was accepted.                              *)
C10_InertRequestOnlySchedules ==
    [][/\ lastOp'.op = "remove" /\ InertRequest(lastOp'.uploadId) =>
             /\ UNCHANGED <<files, activeUploads, intervals, events, accepted>>
             /\ emitted' = <<>>
             /\ Len(timeouts') = Len(timeouts) + 1
             /\ SubSeq(timeouts', 1, Len(timeouts)) = timeouts
             /\ timeouts'[Len(timeouts')].uploadId = lastOp'.uploadId
       /\ lastOp'.op = "purge" /\ lastOp'.uploadId \notin Ids(files) =>
             /\ UNCHANGED <<files, activeUploads, intervals, events, accepted>>
             /\ emitted' = <<>>
       /\ lastOp'.op = "purge" /\ emitted' # <<>> =>
             /\ Len(emitted') = 1
             /\ RemovedIn(events, lastOp'.uploadId) = <<>>
             /\ emitted'[1].detail.userInitiated
                   = accepted[lastOp'.uploadId].userInitiated]_vars

\* removal was requested a second time while the item's purge was pending
C10_Witness ==
    /\ lastOp.op = "remove"
    /\ lastOp.uploadId \in Ids(files)
    /\ Item(lastOp.uploadId).isExiting
    /\ Cardinality(PendingFor(lastOp.uploadId)) = 2

(* C11: a tick of an interval whose uploadId is not in the queue is        *)
(* discarded: the queue is as before (no item is created or changed),      *)
(* nothing is dispatched, and the callback returns normally, leaving the   *)
(* handle map, the live intervals and the pending timeouts as they were.   *)
C11_TickForMissingItemIsDiscarded ==
    [][lastOp'.op = "tick" /\ lastOp'.uploadId \notin Ids(files) =>
          /\ files' = files
          /\ emitted' = <<>>
          /\ events' = events
          /\ activeUploads' = activeUploads
          /\ DOMAIN intervals' = DOMAIN intervals
          /\ timeouts' = timeouts]_vars

\* the clock of a file whose item never reached the queue has ticked beside
\* an item that is in the queue
C11_Witness ==
    /\ lastOp.op = "tick"
    /\ lastOp.uploadId \notin Ids(files)
    /\ lastOp.uploadId \in DOMAIN activeUploads
    /\ intervals[activeUploads[lastOp.uploadId]].currentChunk
          >= intervals[activeUploads[lastOp.uploadId]].totalChunks
    /\ files # <<>>

(* C12: between two successive states in which an item is in the queue,    *)
(* neither its completed chunks nor its progress percentage decreases.     *)
C12_ChunksNeverDecrease ==
    [][\A id \in AllIds :
          id \in Ids(files) /\ id \in Ids(files') =>
              LET before == Item(id)
                  after == files'[FindIndex(files', id)]
              IN  /\ ChunksDone(after) >= ChunksDone(before)
                  /\ after.progress.num * before.progress.den
                        >= before.progress.num * after.progress.den]_vars

\* a tick has taken an item of two chunks from 50 to 100 percent
C12_Witness ==
    /\ lastOp.op = "tick"
    /\ lastOp.uploadId \in Ids(files)
    /\ Item(lastOp.uploadId).totalChunks = 2
    /\ Item(lastOp.uploadId).progress = [num |-> 200, den |-> 2]
    /\ ChunksDone(Item(lastOp.uploadId)) = 2

(* C13: an item that is complete has no live interval and no registered    *)
(* handle, from the completing tick on, and no step changes the progress,  *)
(* status or completion flag (hence the completed chunks) of a complete    *)
(* item while it stays in the queue.                                       *)
C13_CompleteItemIsFrozen ==
    [][\A id \in AllIds :
          /\ id \in Ids(files') /\ files'[FindIndex(files', id)].isComplete =>
                /\ id \notin DOMAIN activeUploads'
                /\ \A h \in DOMAIN intervals' : intervals'[h].uploadId # id
          /\ id \in Ids(files) /\ Item(id).isComplete /\ id \in Ids(files') =>
                LET before == Item(id)
                    after == files'[FindIndex(files', id)]
                IN  /\ after.progress = before.progress
                    /\ after.status = before.status
                    /\ after.isComplete
                    /\ ChunksDone(after) = ChunksDone(before)]_vars

\* another item's clock has ticked while a complete item waits in the queue
C13_Witness ==
    /\ lastOp.op = "tick"
    /\ \E id \in Ids(files) :
          /\ id # lastOp.uploadId
          /\ Phase(Item(id)) = "Complete"
          /\ Len(CompletedEvents(id)) = 1

(* C14: the items in the queue are in admission order, that is in the      *)
(* order of their uploadIds, which are generated batch after batch and,    *)
(* within a batch, file after file: no step reorders them.                 *)
C14_QueueInAdmissionOrder ==
    \A i, j \in 1 .. Len(files) :
        i < j => files[i].uploadId < files[j].uploadId

\* the first of two items is exiting while the clock of the second has ticked
C14_Witness ==
    /\ lastOp.op = "tick"
    /\ Len(files) = 2
    /\ Phase(files[1]) = "Exiting"
    /\ files[2].uploadId = lastOp.uploadId
    /\ files[1].uploadId < files[2].uploadId

(* C15: a files-added step leaves every item already in the queue, every   *)
(* registered handle, every live interval and every pending timeout as it  *)
(* was; with simulateUploads on it starts exactly one interval per file of *)
(* the batch, registered under the new item's id with no chunk counted,    *)
(* and with simulateUploads off it starts none.                            *)
C15_AdmitLeavesOthersAlone ==
    [][lastOp'.op = "admit" =>
          LET n == Len(lastOp'.batch)
              newIds == nextId .. (nextId + n - 1)
          IN  /\ SubSeq(files', 1, Len(files)) = files
              /\ timeouts' = timeouts
              /\ \A id \in DOMAIN activeUploads :
                    /\ id \in DOMAIN activeUploads'
                    /\ activeUploads'[id] = activeUploads[id]
              /\ \A h \in DOMAIN intervals :
                    /\ h \in DOMAIN intervals'
                    /\ intervals'[h] = intervals[h]
              /\ IF simulateUploads
                 THEN /\ DOMAIN activeUploads' = DOMAIN activeUploads \cup newIds
                      /\ Cardinality(DOMAIN intervals' \ DOMAIN intervals) = n
                      /\ \A id \in newIds :
                            /\ activeUploads'[id] \notin DOMAIN intervals
                            /\ { h \in DOMAIN intervals' :
                                    intervals'[h].uploadId = id }
                                  = { activeUploads'[id] }
                            /\ intervals'[activeUploads'[id]].currentChunk = 0
                 ELSE /\ activeUploads' = activeUploads
                      /\ intervals' = intervals]_vars

\* a file was admitted behind an item in mid-transfer
C15_Witness ==
    /\ lastOp.op = "admit"
    /\ Len(lastOp.batch) = 1
    /\ Len(files) = 2
    /\ Phase(files[1]) = "Transferring"
    /\ HasOneClock(files[1].uploadId)
    /\ HasOneClock(files[2].uploadId)

(* C16 as stated: an item that has completed goes on to exit by itself:    *)
(* with the timers of the browser firing, an item that is in the queue in  *)
(* phase Complete is later exiting or gone from the queue.                 *)
C16_CompletionLeadsToExit ==
    \A id \in AllIds :
        (id \in Ids(files) /\ Phase(Item(id)) = "Complete")
            ~> (id \notin Ids(files) \/ Phase(Item(id)) = "Exiting")

(* C16, what the code does instead: the completing tick leaves the item in *)
(* the queue, not exiting, and schedules no purge; only a removal request  *)
(* makes a complete item exit.                                             *)
C16_CompletionSchedulesNothing ==
    [][/\ lastOp'.op = "tick" =>
             /\ Len(files') = Len(files)
             /\ timeouts' = timeouts
             /\ \A i \in 1 .. Len(files) : files'[i].isExiting = files[i].isExiting
       /\ \A id \in AllIds :
             /\ id \in Ids(files) /\ Phase(Item(id)) = "Complete"
             /\ id \in Ids(files') /\ Phase(files'[FindIndex(files', id)]) = "Exiting"
             => lastOp'.op = "remove" /\ lastOp'.uploadId = id]_vars

(* C17: with simulateUploads off no interval is ever started: every        *)
(* generated id has had its file-added event, every item in the queue has  *)
(* zero progress and the status it was admitted with, in phase             *)
(* Initializing until a removal request makes it exit, and no              *)
(* file-completed event exists.                                            *)
C17_NoSimulationNoProgress ==
    ~simulateUploads =>
        /\ activeUploads = EmptyMap
        /\ intervals = EmptyMap
        /\ nextHandle = 1
        /\ \A i \in 1 .. Len(files) :
              /\ Phase(files[i]) \in {"Initializing", "Exiting"}
              /\ Phase(files[i]) = "Exiting" => files[i].uploadId \in DOMAIN accepted
              /\ files[i].progress.num = 0
              /\ files[i].status.text = "Initializing..."
              /\ ~files[i].isComplete
        /\ \A id \in GeneratedIds :
              /\ EventsOf(id) # <<>>
              /\ EventsOf(id)[1].type = "file-added"
        /\ \A id \in AllIds : CompletedEvents(id) = <<>>

\* with simulateUploads off, one item was removed and purged while another
\* is still initializing
C17_Witness ==
    /\ ~simulateUploads
    /\ \E id \in GeneratedIds : Len(RemovedEvents(id)) = 1
    /\ \E i \in 1 .. Len(files) : Phase(files[i]) = "Initializing"

(* C18: for every pair of integers [a, b] given as chunkRange, with        *)
(* lo = max(1, a) and hi = max(lo, b), randomChunkTotal can always return  *)
(* a value, every value it can return is within lo .. hi, and so is the    *)
(* totalChunks of every item and of every file-added event; for a valid    *)
(* range (1 <= a <= b) that is within a .. b.                              *)
C18_TotalChunksWithinClampedRange ==
    LET a == chunkRange[1]
        b == chunkRange[2]
        lo == IF a >= 1 THEN a ELSE 1
        hi == IF b >= lo THEN b ELSE lo
    IN  /\ randomChunkTotal(chunkRange) # {}
        /\ \A t \in randomChunkTotal(chunkRange) : lo <= t /\ t <= hi
        /\ \A i \in 1 .. Len(files) :
              /\ lo <= files[i].totalChunks
              /\ files[i].totalChunks <= hi
              /\ 1 <= a /\ a <= b => files[i].totalChunks \in a .. b
        /\ \A i \in 1 .. Len(emitted) :
              emitted[i].type = "file-added" =>
                  /\ lo <= emitted[i].detail.totalChunks
                  /\ emitted[i].detail.totalChunks <= hi

\* files were admitted under a reversed range with a negative upper bound
C18_Witness ==
    /\ chunkRange = <<2, -1>>
    /\ lastOp.op = "admit"
    /\ Len(files) = 2
    /\ files[1].totalChunks = 2
    /\ files[2].totalChunks = 2

(* C19: every item in the queue has 0 <= completed chunks <= totalChunks,  *)
(* and its progress is that share of 100 percent, hence within 0 .. 100.   *)
C19_ChunksWithinBounds ==
    \A i \in 1 .. Len(files) :
        /\ 0 <= ChunksDone(files[i])
        /\ ChunksDone(files[i]) <= files[i].totalChunks
        /\ files[i].progress.den > 0
        /\ 0 <= files[i].progress.num
        /\ files[i].progress.num <= 100 * files[i].progress.den
        /\ files[i].progress.num * files[i].totalChunks
              = 100 * ChunksDone(files[i]) * files[i].progress.den

\* one item has all its chunks done and another has none
C19_Witness ==
    \E i, j \in 1 .. Len(files) :
        /\ ChunksDone(files[i]) = files[i].totalChunks
        /\ files[i].progress.num = 100 * files[i].progress.den
        /\ files[i].totalChunks = 2
        /\ ChunksDone(files[j]) = 0
        /\ HasOneClock(files[j].uploadId)

(* C20: no uploadId has more than one live interval, and no handle is      *)
(* registered under two uploadIds.                                         *)
C20_OneClockPerItem ==
    /\ \A id \in AllIds : Cardinality(ClocksOf(id)) <= 1
    /\ \A id1, id2 \in DOMAIN activeUploads :
          activeUploads[id1] = activeUploads[id2] => id1 = id2

\* two items are in transfer, each with a clock of its own
C20_Witness ==
    /\ Cardinality(DOMAIN activeUploads) = 2
    /\ Cardinality(DOMAIN intervals) = 2
    /\ \A i \in 1 .. Len(files) : Phase(files[i]) = "Transferring"
    /\ Len(files) = 2

\* the phases in the order of the item's life
PhaseRank(p) ==
    CASE p = "Initializing" -> 0
      [] p = "Transferring" -> 1
      [] p = "Complete" -> 2
      [] OTHER -> 3

(* C21: between two successive states in which an item is in the queue its *)
(* phase never moves back: an exiting item is still exiting, and an item   *)
(* that is complete stays complete (in phase Complete or Exiting).         *)
C21_PhaseNeverMovesBack ==
    [][\A id \in AllIds :
          id \in Ids(files) /\ id \in Ids(files') =>
              LET before == Item(id)
                  after == files'[FindIndex(files', id)]
              IN  /\ PhaseRank(Phase(after)) >= PhaseRank(Phase(before))
                  /\ before.isExiting => after.isExiting
                  /\ before.isComplete =>
                        /\ after.isComplete
                        /\ Phase(after) \in {"Complete", "Exiting"}]_vars

\* removal was requested again for an item that completed and is exiting
C21_Witness ==
    /\ lastOp.op = "remove"
    /\ lastOp.uploadId \in Ids(files)
    /\ Item(lastOp.uploadId).isExiting
    /\ Item(lastOp.uploadId).isComplete
    /\ accepted[lastOp.uploadId].wasComplete
    /\ Cardinality(PendingFor(lastOp.uploadId)) = 2

(* C22: an accepted removal request (the item is in the queue and not      *)
(* exiting) leaves the queue as long as it was and the item in its place,  *)
(* with every field as before except isExiting, which is now true.         *)
C22_MarkExitingChangesOnlyTheFlag ==
    [][lastOp'.op = "remove" /\ ~InertRequest(lastOp'.uploadId) =>
          LET i == FindIndex(files, lastOp'.uploadId)
          IN  /\ Len(files') = Len(files)
              /\ files'[i].isExiting
              /\ ~files[i].isExiting
              /\ \A field \in {"uploadId", "name", "size", "type", "totalChunks",
                                "progress", "status", "isComplete"} :
                    files'[i][field] = files[i][field]
              /\ ChunksDone(files'[i]) = ChunksDone(files[i])
              /\ Phase(files'[i]) = "Exiting"]_vars

\* removal of an item in mid-transfer was requested and accepted
C22_Witness ==
    /\ lastOp.op = "remove"
    /\ lastOp.uploadId \in Ids(files)
    /\ Cardinality(PendingFor(lastOp.uploadId)) = 1
    /\ Item(lastOp.uploadId).isExiting
    /\ Item(lastOp.uploadId).status = [text |-> "Uploading chunk", chunk |-> 1,
                                       total |-> 2]
    /\ Item(lastOp.uploadId).progress = [num |-> 100, den |-> 2]

(* C23: a tick of the clock of A, a removal request for A and the purge of *)
(* A leave every other item B in the queue with every field as before,     *)
(* and B's registered handle and its interval as before; and whenever an   *)
(* item that stays in the queue changes, the step is a tick of its own     *)
(* clock or a removal request for it.                                      *)
C23_OtherItemsUntouched ==
    [][/\ lastOp'.op \in {"tick", "remove", "purge"} =>
             \A i \in 1 .. Len(files) :
                 files[i].uploadId # lastOp'.uploadId =>
                     LET b == files[i].uploadId
                     IN  /\ b \in Ids(files')
                         /\ files'[FindIndex(files', b)] = files[i]
                         /\ (b \in DOMAIN activeUploads') = (b \in DOMAIN activeUploads)
                         /\ b \in DOMAIN activeUploads =>
                               /\ activeUploads'[b] = activeUploads[b]
                               /\ activeUploads[b] \in DOMAIN intervals'
                               /\ intervals'[activeUploads[b]]
                                     = intervals[activeUploads[b]]
       /\ \A id \in AllIds :
             /\ id \in Ids(files) /\ id \in Ids(files')
             /\ files'[FindIndex(files', id)] # Item(id)
             => lastOp'.uploadId = id /\ lastOp'.op \in {"tick", "remove"}]_vars

\* the clock of one item has completed it while another item in mid-transfer
\* kept its chunk and its clock
C23_Witness ==
    /\ lastOp.op = "tick"
    /\ Len(files) = 2
    /\ lastOp.uploadId \in Ids(files)
    /\ Item(lastOp.uploadId).isComplete
    /\ \E i \in 1 .. Len(files) :
          /\ files[i].uploadId # lastOp.uploadId
          /\ Phase(files[i]) = "Transferring"
          /\ HasOneClock(files[i].uploadId)
          /\ intervals[activeUploads[files[i].uploadId]].currentChunk = 1

(* C24: every item in the queue has the uploadId, name, size, type and     *)
(* totalChunks that its file-added event announced at admission, and no    *)
(* two items in the queue have the same uploadId.                          *)
C24_MetadataFixedAtAdmission ==
    \A i \in 1 .. Len(files) :
        /\ EventsOf(files[i].uploadId) # <<>>
        /\ EventsOf(files[i].uploadId)[1] =
              [type |-> "file-added",
               detail |-> [uploadId |-> files[i].uploadId,
                           name |-> files[i].name,
                           size |-> files[i].size,
                           type |-> files[i].type,
                           totalChunks |-> files[i].totalChunks]]
        /\ \A j \in 1 .. Len(files) : files[j].uploadId = files[i].uploadId => j = i

\* an item has ticked and then been marked exiting, with its metadata as admitted
C24_Witness ==
    \E i \in 1 .. Len(files) :
        /\ files[i].name = "b.png"
        /\ files[i].size = 0
        /\ files[i].isExiting
        /\ ChunksDone(files[i]) = 1
        /\ files[i].totalChunks = 2

(* C25: the counter of every live interval is below its totalChunks, so    *)
(* the next tick it delivers counts at most totalChunks; and right after   *)
(* the tick on which the counter reaches totalChunks, the one that         *)
(* dispatches file-completed, the interval is no longer live and its       *)
(* handle is no longer in the map.                                         *)
C25_ClockStopsAtTarget ==
    /\ \A h \in DOMAIN intervals :
          /\ intervals[h].currentChunk >= 0
          /\ intervals[h].currentChunk < intervals[h].totalChunks
    /\ lastOp.op = "tick" =>
          /\ emitted # <<>> =>
                /\ emitted = <<[type |-> "file-completed",
                                detail |-> [uploadId |-> lastOp.uploadId]]>>
                /\ HasNoClock(lastOp.uploadId)
          /\ lastOp.uploadId \in Ids(files)
             /\ ChunksDone(Item(lastOp.uploadId)) = Item(lastOp.uploadId).totalChunks
             => HasNoClock(lastOp.uploadId) /\ emitted # <<>>

\* the clock of an item of two chunks has stopped itself on its second tick
\* while the clock of another item runs on
C25_Witness ==
    /\ lastOp.op = "tick"
    /\ emitted # <<>>
    /\ lastOp.uploadId \in Ids(files)
    /\ Item(lastOp.uploadId).totalChunks = 2
    /\ HasNoClock(lastOp.uploadId)
    /\ Cardinality(DOMAIN intervals) = 1
    /\ Cardinality(DOMAIN activeUploads) = 1

(* C26: a tick of the clock of an item that is in the queue and not        *)
(* complete raises its completed chunks by exactly one, to the number of   *)
(* ticks its clock has delivered; after it the item is complete exactly    *)
(* when that number is totalChunks, and is otherwise in phase Transferring *)
(* with 0 < completed chunks < totalChunks.                                *)
C26_TickCountsOneChunk ==
    [][lastOp'.op = "tick" /\ lastOp'.uploadId \in Ids(files)
         /\ ~Item(lastOp'.uploadId).isComplete =>
          LET id == lastOp'.uploadId
              before == Item(id)
              after == files'[FindIndex(files', id)]
              j == intervals[activeUploads[id]].currentChunk + 1
          IN  /\ ChunksDone(before) = j - 1
              /\ ChunksDone(after) = j
              /\ j <= after.totalChunks
              /\ after.isComplete <=> (j = after.totalChunks)
              /\ Phase(after) = (IF j = after.totalChunks
                                 THEN "Complete" ELSE "Transferring")
              /\ ~after.isComplete =>
                    /\ 0 < ChunksDone(after)
                    /\ ChunksDone(after) < after.totalChunks
                    /\ intervals'[activeUploads'[id]].currentChunk = j
              /\ after.progress = [num |-> 100 * j, den |-> after.totalChunks]]_vars

\* the first tick of an item of two chunks has put it in phase Transferring
C26_Witness ==
    /\ lastOp.op = "tick"
    /\ lastOp.uploadId \in Ids(files)
    /\ Phase(Item(lastOp.uploadId)) = "Transferring"
    /\ ChunksDone(Item(lastOp.uploadId)) = 1
    /\ intervals[activeUploads[lastOp.uploadId]].currentChunk = 1
    /\ Len(files) = 1

(* C27: a removal request for an item that had completed (its clock had    *)
(* stopped itself) is accepted like any other: the item is exiting with    *)
(* its purge pending and no clock, and after the purge it is gone with     *)
(* exactly one file-removed event; and clear-files deletes a complete item *)
(* like any other, without a file-removed event.                           *)
C27_RemovalOfCompleteItem ==
    /\ \A id \in DOMAIN accepted :
          accepted[id].wasComplete =>
              /\ Len(CompletedEvents(id)) = 1
              /\ HasNoClock(id)
              /\ id \notin cleared =>
                    \/ /\ id \in Ids(files)
                       /\ Phase(Item(id)) = "Exiting"
                       /\ Item(id).isComplete
                       /\ Item(id).status.text = "Upload Complete"
                       /\ PendingFor(id) # {}
                       /\ RemovedEvents(id) = <<>>
                    \/ /\ id \notin Ids(files)
                       /\ Len(RemovedEvents(id)) = 1
                       /\ RemovedEvents(id)[1].detail.userInitiated
                             = accepted[id].userInitiated
    /\ \A id \in cleared :
          CompletedEvents(id) # <<>> =>
              /\ id \notin Ids(files)
              /\ HasNoClock(id)
              /\ RemovedEvents(id) = <<>>

\* a complete item was removed on request and purged, and another complete
\* item was deleted by clear-files
C27_Witness ==
    /\ \E id \in DOMAIN accepted :
          /\ accepted[id].wasComplete
          /\ id \notin cleared
          /\ Len(RemovedEvents(id)) = 1
    /\ \E id \in cleared :
          /\ CompletedEvents(id) # <<>>
          /\ id \notin DOMAIN accepted

(* C28 as stated: the item named by a file-added event is in the queue     *)
(* when the event is delivered, so that what a listener does during the    *)
(* notification acts on it: after a clear-files issued during the          *)
(* notification of the k-th file of a batch, the items announced so far    *)
(* are not in the queue when addFiles returns and, with simulateUploads    *)
(* on, no item is in phase Initializing or Transferring without a clock;   *)
(* after a remove-file for the id just announced, its item is exiting.     *)
C28_AdmitIsAtomicForListeners ==
    [][/\ lastOp'.op = "admit-clear" =>
             /\ \A id \in nextId .. lastOp'.uploadId : id \notin Ids(files')
             /\ simulateUploads =>
                   \A i \in 1 .. Len(files') :
                       Phase(files'[i]) \in {"Initializing", "Transferring"} =>
                           files'[i].uploadId \in DOMAIN activeUploads'
       /\ lastOp'.op = "admit-remove" =>
             \A i \in 1 .. Len(files') :
                 files'[i].uploadId = lastOp'.uploadId => files'[i].isExiting]_vars

(* C28, what the code does instead: file-added is dispatched before the    *)
(* item is put in the queue.  A clear-files issued during the notification *)
(* of the k-th file deletes the items that were in the queue and stops the *)
(* clocks started so far, those of the first k new files included; when    *)
(* addFiles returns the queue holds all the new items, in phase            *)
(* Initializing, the first k of them without a clock.  A remove-file for   *)
(* the id just announced stops its clock and schedules its purge, and the  *)
(* item enters the queue not exiting and without a clock.                  *)
C28_ListenerRunsBeforeItemIsQueued ==
    [][/\ lastOp'.op = "admit-clear" =>
             /\ Len(files') = Len(lastOp'.batch)
             /\ \A i \in 1 .. Len(files') :
                   /\ files'[i].uploadId = nextId + i - 1
                   /\ Phase(files'[i]) = "Initializing"
                   /\ (files'[i].uploadId \in DOMAIN activeUploads')
                         <=> (simulateUploads /\ files'[i].uploadId > lastOp'.uploadId)
             /\ DOMAIN activeUploads' \subseteq Ids(files')
       /\ lastOp'.op = "admit-remove" =>
             LET item == files'[FindIndex(files', lastOp'.uploadId)]
             IN  /\ lastOp'.uploadId \in Ids(files')
                 /\ Phase(item) = "Initializing"
                 /\ lastOp'.uploadId \notin DOMAIN activeUploads'
                 /\ timeouts'[Len(timeouts')].uploadId = lastOp'.uploadId]_vars

(* C29: with the purge timeouts firing, every item that is exiting is      *)
(* later gone from the queue; until then it stays in the queue in phase    *)
(* Exiting, and a purge for it is pending.                                 *)
C29_ExitingItemLeaves ==
    /\ \A id \in AllIds :
          (id \in Ids(files) /\ Item(id).isExiting) ~> (id \notin Ids(files))
    /\ [][\A id \in AllIds :
              /\ id \in Ids(files) /\ Item(id).isExiting
              /\ id \in Ids(files')
              => Phase(files'[FindIndex(files', id)]) = "Exiting"]_vars
    /\ [](\A id \in AllIds :
              id \in Ids(files) /\ Item(id).isExiting => PendingFor(id) # {})

\* one exiting item has been purged after the grace period while another is
\* still exiting behind a purge of its own
C29_Witness ==
    /\ lastOp.op = "purge"
    /\ lastOp.uploadId \in DOMAIN accepted
    /\ lastOp.uploadId \notin Ids(files)
    /\ lastOp.uploadId \notin cleared
    /\ \E i \in 1 .. Len(files) :
          /\ files[i].isExiting
          /\ PendingFor(files[i].uploadId) # {}

(* C30: with the simulation on and every interval timer served, an item in  *)
(* the queue that is Initializing or Transferring later is Complete, or     *)
(* Exiting, or gone from the queue, with no interval timer left for it; a   *)
(* live interval timer always belongs to an item of the queue that is       *)
(* Initializing or Transferring, so every timer started by addFiles is      *)
(* later cleared and no item stays Initializing or Transferring for ever.   *)
C30_TransfersTerminate ==
    /\ \A id \in AllIds :
          (/\ simulateUploads
           /\ id \in Ids(files)
           /\ Phase(Item(id)) \in {"Initializing", "Transferring"})
          ~> (/\ ClocksOf(id) = {}
              /\ \/ id \notin Ids(files)
                 \/ Phase(Item(id)) \in {"Complete", "Exiting"})
    /\ [](\A h \in DOMAIN intervals :
              /\ intervals[h].uploadId \in Ids(files)
              /\ Phase(Item(intervals[h].uploadId))
                    \in {"Initializing", "Transferring"})

\* one item has just completed by its own last tick and has no timer left,
\* after passing through Transferring, while another item is still on its way
C30_Witness ==
    /\ simulateUploads
    /\ lastOp.op = "tick"
    /\ lastOp.uploadId \in Ids(files)
    /\ Phase(Item(lastOp.uploadId)) = "Complete"
    /\ Item(lastOp.uploadId).totalChunks > 1
    /\ HasNoClock(lastOp.uploadId)
    /\ \E i \in 1 .. Len(files) :
          /\ Phase(files[i]) = "Transferring"
          /\ HasOneClock(files[i].uploadId)

\* the types of the events dispatched about id, in order
TypesOf(id) == [j \in 1 .. Len(EventsOf(id)) |-> EventsOf(id)[j].type]

EventOrders ==
    { <<"file-added">>,
      <<"file-added", "file-completed">>,
      <<"file-added", "file-removed">>,
      <<"file-added", "file-completed", "file-removed">> }

(* C31: the events dispatched about one uploadId are, in order, its         *)
(* file-added, then at most one file-completed, then at most one            *)
(* file-removed: none comes before the file-added and none after the        *)
(* file-removed.  Events are dispatched about generated uploadIds only.     *)
C31_EventsInLifecycleOrder ==
    /\ DOMAIN events \subseteq GeneratedIds
    /\ \A id \in DOMAIN events : TypesOf(id) \in EventOrders

\* a file was admitted, completed and then purged, and a second purge for it
\* has fired since without a further event
C31_Witness ==
    /\ lastOp.op = "purge"
    /\ emitted = <<>>
    /\ lastOp.uploadId \in DOMAIN events
    /\ TypesOf(lastOp.uploadId) = <<"file-added", "file-completed", "file-removed">>

(* C32: however removal requests with either flag, purge timeouts and       *)
(* clear-files interleave, at most one file-removed event is dispatched     *)
(* about an uploadId, and its userInitiated flag is that of the first       *)
(* request, the one made while the item was in the queue and not exiting;   *)
(* the purge of a later request for the id dispatches nothing.              *)
C32_OneRemovedEventWithFirstFlag ==
    /\ \A id \in AllIds :
          /\ Len(RemovedEvents(id)) <= 1
          /\ RemovedEvents(id) # <<>> =>
                /\ id \in DOMAIN accepted
                /\ RemovedEvents(id)[1].detail.userInitiated
                      = accepted[id].userInitiated
    /\ lastOp.op = "purge" /\ emitted # <<>> =>
          emitted = RemovedEvents(lastOp.uploadId)

\* the purge of the first of two requests for one item has dispatched
\* file-removed with the first flag while the purge of the second request,
\* made with the other flag during the grace period, is still pending
C32_Witness ==
    /\ lastOp.op = "purge"
    /\ Len(emitted) = 1
    /\ emitted[1].type = "file-removed"
    /\ emitted[1].detail.userInitiated = accepted[lastOp.uploadId].userInitiated
    /\ \E j \in PendingFor(lastOp.uploadId) :
          timeouts[j].userInitiated # emitted[1].detail.userInitiated

\* the second purge for the item has fired as well: still one file-removed
C32_WitnessSecondPurge ==
    /\ lastOp.op = "purge"
    /\ emitted = <<>>
    /\ Len(RemovedEvents(lastOp.uploadId)) = 1
    /\ PendingFor(lastOp.uploadId) = {}

(* C37: the map holds an uploadId exactly when a live interval exists for   *)
(* it, and the handle registered is that interval's, in every reachable     *)
(* state, those after a re-run of the listener effect included.             *)
C37_MapMatchesLiveTimers ==
    \A id \in AllIds :
        /\ id \in DOMAIN activeUploads <=> ClocksOf(id) # {}
        /\ id \in DOMAIN activeUploads => ClocksOf(id) = {activeUploads[id]}

(* C37, what the code keeps instead: a live interval always has its         *)
(* uploadId registered with its handle, so no timer runs unregistered; a    *)
(* registered handle whose interval is dead belongs to an item that was     *)
(* still Initializing or Transferring when the effect's cleanup ran, and    *)
(* stays in the map until remove-file for the id or clear-files.            *)
C37_LiveTimersAreRegistered ==
    /\ \A h \in DOMAIN intervals :
          /\ intervals[h].uploadId \in DOMAIN activeUploads
          /\ activeUploads[intervals[h].uploadId] = h
    /\ lastOp.op = "teardown" => intervals = EmptyMap
    /\ \A id \in DOMAIN activeUploads :
          ClocksOf(id) = {} =>
              /\ id \in Ids(files)
              /\ Phase(Item(id)) \in {"Initializing", "Transferring"}

\* the cleanup has run with an upload in flight: its handle is still in the
\* map and no interval is live
C37_StaleHandle ==
    /\ lastOp.op = "teardown"
    /\ activeUploads # EmptyMap
    /\ intervals = EmptyMap

\* the state of the dropdown, without the history fields
SelectState(s) ==
    <<s.isOpen, s.isClosing, s.isOpening, s.isHovered, s.isMobile, s.dragging,
      s.timers>>

SelectRequests == {"toggle", "select", "outside", "escape", "overlay"}

(* C33: in the dropdown isOpening and isClosing are never both true and     *)
(* each implies isOpen; while one of them is true, a click on the trigger,  *)
(* a click on an option, an outside pointerdown, Escape and a pointerdown   *)
(* on the overlay leave the state and the pending timeouts as they are and  *)
(* call neither onSelect nor onToggle.                                      *)
C33_SelectAnimationIsExclusive ==
    /\ [](/\ ~(select.isOpening /\ select.isClosing)
          /\ select.isOpening => select.isOpen
          /\ select.isClosing => select.isOpen)
    /\ [][/\ select.isOpening \/ select.isClosing
          /\ select'.last \in SelectRequests
          => /\ SelectState(select') = SelectState(select)
             /\ select'.calls = <<>>]_vars

\* what holds of the requests made through the handlers of the elements
\* (trigger, options, overlay), which are those of the latest render: while
\* isOpening or isClosing is set they change and call nothing
C33_ElementRequestsAreIgnored ==
    [][/\ select.isOpening \/ select.isClosing
       /\ select'.last \in {"toggle", "select", "overlay"}
       => /\ SelectState(select') = SelectState(select)
          /\ select'.calls = <<>>]_vars

\* the second event of a press outside the closing menu was handled by the
\* listener of the render before and has scheduled a second close timeout
C33_SecondCloseTimeout ==
    /\ select.last = "outside"
    /\ select.isClosing
    /\ select.timers = <<"close", "close">>

\* the second close timeout has fired after the menu was opened again
C33_OpeningWhileClosed ==
    /\ select.isOpening
    /\ ~select.isOpen

(* C34: with the menu neither opening nor closing, a click on a toggle      *)
(* option, when onToggle is given, calls onToggle with the option's value   *)
(* and the negation of its checked flag, does not call onSelect and leaves  *)
(* the menu open; a click on any other option calls onSelect once with the  *)
(* option's value and starts the closing; the close timeout leaves the      *)
(* menu closed (isOpen and isClosing false), and a closing menu gets there. *)
C34_SelectOptionClick ==
    /\ [][/\ select'.last = "select"
          /\ ~select.isOpening /\ ~select.isClosing
          => IF select'.option.type = "toggle" /\ select.hasOnToggle
             THEN /\ select'.calls = <<OnToggle(select'.option.value,
                                                ~select'.option.checked)>>
                  /\ SelectState(select') = SelectState(select)
                  /\ select'.isOpen
             ELSE /\ select'.calls = <<OnSelect(select'.option.value)>>
                  /\ select'.isOpen /\ select'.isClosing /\ ~select'.isOpening
                  /\ select'.timers = Append(select.timers, "close")]_vars
    /\ [][select'.last = "close-timeout"
          => ~select'.isOpen /\ ~select'.isClosing]_vars
    /\ select.isClosing ~> (~select.isOpen /\ ~select.isClosing)

\* an option was clicked, onSelect called, and the close timeout has fired
C34_Witness ==
    /\ select.last = "close-timeout"
    /\ select.option = OptionButton
    /\ ~select.isOpen
    /\ ~select.isClosing

\* what holds of a click on a toggle option: nothing changes and nothing is
\* called, whether onToggle is given or not
C34_ToggleOptionIsInert ==
    [][select'.last = "select" /\ select'.option.type = "toggle"
       => /\ SelectState(select') = SelectState(select)
          /\ select'.calls = <<>>]_vars

\* what holds of the other options: with the menu open and settled a click
\* calls onSelect once and starts the closing, and a closing menu gets closed
C34_OtherOptionSelects ==
    /\ [][/\ select'.last = "select"
          /\ select'.option.type # "toggle"
          /\ ~select.isOpening /\ ~select.isClosing
          => /\ select'.calls = <<OnSelect(select'.option.value)>>
             /\ select'.isOpen /\ select'.isClosing /\ ~select'.isOpening
             /\ select'.timers = Append(select.timers, "close")]_vars
    /\ select.isClosing ~> (~select.isOpen /\ ~select.isClosing)

\* a toggle option of the open, settled menu was clicked with onToggle given
C34_ToggleClicked ==
    /\ select.last = "select"
    /\ select.option = OptionToggleOff
    /\ select.hasOnToggle
    /\ select.isOpen /\ ~select.isOpening /\ ~select.isClosing
    /\ select.calls = <<>>

\* the state of the dialog, without the history fields
ModalState(m) ==
    <<m.mounted, m.isOpen, m.isClosing, m.localLinkServer, m.localLinkName,
      m.linkServer, m.linkName, m.timers, m.orphans>>

ModalGestures == {"cancel", "overlay", "save", "escape"}

(* C35: in EditFileModal a close that is pending (isClosing true) has       *)
(* exactly one timeout, and no timeout is pending otherwise; a gesture      *)
(* made meanwhile (cancel, overlay click, save, Escape) changes nothing     *)
(* and calls nothing; a click on Cancel or on the overlay or a submit       *)
(* accepted otherwise calls nothing yet and schedules one timeout; the      *)
(* timeout's callback belongs to the close that is pending, resets          *)
(* isClosing and calls exactly one of onSave and onCancel, once: onSave     *)
(* for a save, onCancel for the other gestures.                             *)
C35_ModalClosesOnce ==
    /\ [](Len(PendingTimeouts(modal)) = IF modal.isClosing THEN 1 ELSE 0)
    /\ [][/\ modal'.last \in ModalGestures
          => /\ modal'.calls = <<>>
             /\ modal.isClosing => ModalState(modal') = ModalState(modal)
             /\ ~modal.isClosing /\ modal'.last # "escape"
                   => /\ modal'.isClosing
                      /\ Len(modal'.timers) = 1
                      /\ modal'.timers[1].fn
                            = IF modal'.last = "save" THEN "onSave" ELSE "onCancel"]_vars
    /\ [][/\ modal'.last \in {"timeout", "orphan"}
          => /\ modal.isClosing /\ ~modal'.isClosing
             /\ modal'.calls = <<Head(PendingTimeouts(modal))>>
             /\ PendingTimeouts(modal') = <<>>]_vars

\* what holds of the gestures made through the handlers of the elements
\* (close button, Cancel, overlay, form), which are those of the latest
\* render: while isClosing is set they change and call nothing; and of each
\* timeout: its callback makes the one call scheduled, and the parent
\* unmounts the dialog
C35_ElementGesturesAreIgnored ==
    /\ [][/\ modal'.last \in {"cancel", "overlay", "save"}
          /\ modal.isClosing
          => /\ ModalState(modal') = ModalState(modal)
             /\ modal'.calls = <<>>]_vars
    /\ [][modal'.last \in {"timeout", "orphan"}
          => /\ ~modal'.mounted /\ ~modal'.isClosing
             /\ modal'.calls = <<Head(PendingTimeouts(modal))>>
             /\ PendingTimeouts(modal') = Tail(PendingTimeouts(modal))]_vars

\* Escape was pressed right after a click on Cancel: the listener of the
\* render before has scheduled a second onCancel for the same close
C35_SecondTimeout ==
    /\ modal.last = "escape"
    /\ modal.mounted /\ modal.isClosing
    /\ modal.timers = <<OnCancel, OnCancel>>

\* the second callback of one close: onCancel is called again after the
\* first call has made the parent unmount the dialog
C35_CalledAgain ==
    /\ modal.last = "orphan"
    /\ modal.calls = <<OnCancel>>
    /\ ~modal.mounted
    /\ PendingTimeouts(modal) = <<>>

\* a save was submitted while a cancel was pending: it was ignored, and the
\* cancel is still the only timeout
C35_Witness ==
    /\ modal.last = "save"
    /\ modal.mounted /\ modal.isClosing
    /\ modal.calls = <<>>
    /\ modal.timers = <<OnCancel>>

\* the inputs that are not blank and that new URL() parses as http or https
HttpUrlInputs == {UrlHttp, UrlHttps, UrlHttpsPadded, UrlHttpNoSlashes}

(* C36: a submit of ReportForm dispatches report-submit and calls onSubmit  *)
(* only when the file URL is not blank, parses as an http or https URL,     *)
(* and a reason is selected, and then it dispatches the event once; on a    *)
(* validation failure an error message is set, nothing is dispatched or     *)
(* called, isSubmitting stays false, no reset is scheduled and the fields   *)
(* are left as entered.                                                     *)
C36_ReportSubmitsOnlyValidInput ==
    [][report'.last = "submit" =>
          IF report.fileUrl \in HttpUrlInputs /\ report.reason # ""
          THEN /\ Len(report'.emitted) = 1
               /\ report'.emitted[1].type = "report-submit"
               /\ Len(report'.calls) = IF report.onSubmit = "none" THEN 0 ELSE 1
          ELSE /\ report'.error # ""
               /\ report'.emitted = <<>>
               /\ report'.calls = <<>>
               /\ ~report'.isSubmitting
               /\ report'.timers = report.timers
               /\ report'.fileUrl = report.fileUrl
               /\ report'.reason = report.reason
               /\ report'.details = report.details]_vars

\* a submit with an ftp URL and a reason selected was rejected
C36_Witness ==
    /\ report.last = "submit"
    /\ report.fileUrl = UrlFtp
    /\ report.reason = "spam"
    /\ report.error = "Please enter a valid URL"
    /\ report.emitted = <<>>
    /\ ~report.isSubmitting

\* a submit with a padded https URL was accepted and reports the trimmed URL
C36_WitnessAccepted ==
    /\ report.last = "submit"
    /\ report.fileUrl = UrlHttpsPadded
    /\ report.isSubmitting
    /\ Len(report.emitted) = 1
    /\ report.emitted[1].detail.fileUrl = <<"h", "t", "t", "p", "s", ":", "/", "/", "a">>

====
